---- MODULE Spec2Model ----
(***************************************************************************)
(* Orchestration and resilience layer of mini-llm-council:                 *)
(*   TabPool          (backend/agent/tab_pool.py)                          *)
(*   RateLimitManager (backend/core/rate_limiter.py)                       *)
(*   LangGraphOrchestrator.run_council_stream (backend/core/orchestrator)  *)
(*   ResearchGraph    (backend/core/research_graph.py)                     *)
(*   FallbackRouter   (backend/services/fallback_router.py)                *)
(* Each component has its own specification (SpecPool, SpecLimiter, ...);  *)
(* the variables of the components a specification does not run keep the   *)
(* value they have before the component is constructed.                    *)
(***************************************************************************)
EXTENDS Integers, Sequences, FiniteSets, TLC

VARIABLES
    \* wall clock read by time.time()
    now,
    \* ---- TabPool ----
    max_tabs,      \* self.max_tabs
    tabs,          \* self._tabs : OrderedDict, as a sequence of [id, tab], front = first key
    last_used,     \* self._last_used : dict model_id -> timestamp
    closed,        \* sessions on which close() has been called
    pool_call,     \* the last public call: [name, key, tab, ret, present, probe, evicted]
    \* ---- RateLimitManager ----
    rpm_limit,     \* self.rpm_limit
    capacity,      \* self.capacity
    tokens,        \* self.tokens, counted in 1/TokenUnit of a token
    last_refill,   \* self.last_refill
    waiter,        \* per caller of wait_for_token: [pc, since]
    \* ---- run_council_stream: VOTING ----
    vote_text,     \* vote_text of the persona that is voting
    votes,         \* state["votes"] : persona -> "yes" | "no" | "abstain"
    vote_reasoning, \* state["vote_reasoning"] : persona -> text
    \* ---- run_council_stream ----
    fast_mode,     \* the fast_mode argument
    bitnet_present, \* self.bitnet is not None
    phase,         \* state["phase"]
    phase_hist,    \* the values state["phase"] has been given, in order
    cpc,           \* where the generator run_council_stream stands
    task,          \* per persona: where its stream_persona task stands
    queue,         \* the asyncio.Queue shared by the persona tasks
    finished,      \* finished
    opinions,      \* state["opinions"] : persona -> text
    out,           \* the CouncilResponse events yielded so far
    vidx,          \* index in personas of the persona that votes
    vote_n,        \* chunks the vote streams of this run have delivered
    decree,        \* state["decree"]
    pub,           \* per persona: the events its task has put on the queue
    failed,        \* [persona -> how its backend call failed], and the chairman's
    \* ---- ResearchGraph ----
    config_max,    \* self.config.max_iterations
    entry,         \* the function that started the run
    rnode,         \* the node of the graph that runs next
    max_iterations, \* state["max_iterations"]
    iteration_count, \* state["iteration_count"]
    gaps_found,    \* state["gaps_found"]
    analysis,      \* state["analysis"]
    analyze_calls, \* how many times _analyze_node has run in this run
    search_results, \* state["search_results"]
    last_update,   \* the status_updates entry the last node returned
    search_queries, \* state["search_queries"]
    generation,    \* how the last query generation went: [done, failed, usable]
    cloud_result,  \* how the last call of the cloud model by a node of this run ended
    final_report,  \* state["final_report"]
    node_trace,    \* the nodes the graph has invoked in this run, in order
    stream_events, \* the events research_stream has yielded in this run: [type, node]
    \* ---- FallbackRouter ----
    api_keys,      \* self.api_keys : which credentials are configured
    openrouter_client, \* self._openrouter is not None
    groq_client,   \* self._groq is not None
    rpc,           \* where the generator chat_stream stands
    model_name,    \* the model_name argument
    rout,          \* the fragments chat_stream has yielded
    primary_stream, \* the chunks agent.chat_stream has produced in this call
    primary_failure, \* what the primary backend raised in this call
    fallback,      \* the (provider, fallback_model) _try_fallback chose
    rcalls,        \* calls of chat_stream so far
    fallback_stream, \* the chunks client.chat_stream has produced in this call
    supplied,      \* the credentials the request being served passed to get_router
    \* ---- LMSYSAgent ----
    active_models, \* self.active_models : model_id -> tab, NoTab when absent
    model_ready,   \* self._model_ready : model_id -> "absent" | "false" | "true"
    browser_tabs,  \* the tabs open in the browser, each [id, key] with the key it was opened for
    tabs_created,  \* how many tabs browser.new_tab has created
    gthreads,      \* the threads that run get_model_tab: [pc, key, tab]
    \* ---- GeminiCouncilMember ----
    gemini_members, \* the GeminiCouncilMember instances of the process: [owner, limiter]
    gemini_buckets, \* the RateLimitManager("gemini") instances: tokens of each
    gemini_sent,   \* generate_content calls sent to the provider
    \* ---- TabPool, its lock ----
    pool_lock,     \* self._lock : the thread that holds it, or NoThread
    pool_threads,  \* per thread: the public operation it runs and where it stands
    last_access,   \* the last access to _tabs / _last_used: [thread, op, holder]
    \* ---- LangGraphOrchestrator._ensure_model ----
    has_bitnet,    \* self.has_bitnet
    model_lock,    \* self._model_lock : the task that holds it, or Unlocked
    active_local_model, \* self._active_local_model
    ensure_calls   \* per task: its call of _ensure_model, [type, pc, ret, unloaded]

poolVars == <<max_tabs, tabs, last_used, closed, pool_call>>

limVars == <<rpm_limit, capacity, tokens, last_refill, waiter>>

voteVars == <<vote_text, votes, vote_reasoning>>

councilVars == <<fast_mode, bitnet_present, phase, phase_hist, cpc, task, queue,
                 finished, opinions, out, vidx, vote_n, decree, pub, failed>>

researchVars == <<config_max, entry, rnode, max_iterations, iteration_count, gaps_found,
                  analysis, analyze_calls, search_results, last_update,
                  search_queries, generation, cloud_result, final_report,
                  node_trace, stream_events>>

routerVars == <<api_keys, openrouter_client, groq_client, rpc, model_name, rout,
                primary_stream, primary_failure, fallback, rcalls, fallback_stream,
                supplied>>

agentVars == <<active_models, model_ready, browser_tabs, tabs_created, gthreads>>

geminiVars == <<gemini_members, gemini_buckets, gemini_sent>>

lockVars == <<pool_lock, pool_threads, last_access>>

ensureVars == <<has_bitnet, model_lock, active_local_model, ensure_calls>>

vars == <<now, poolVars, limVars, voteVars, councilVars, researchVars, routerVars,
          agentVars, geminiVars, lockVars, ensureVars>>

None == "None"

-----------------------------------------------------------------------------
(* Bounds of the model *)

\* model ids are the integers 1..MaxKeys
MaxKeys == 2
\* session (tab) objects are the integers 1..MaxSessions
MaxSessions == 2
\* largest max_tabs a pool is constructed with
MaxTabsArg == 2
\* the clock stops advancing at MaxClock
MaxClock == 1

\* largest rpm_limit a limiter is constructed with
MaxRpm == 3
\* number of concurrent callers of wait_for_token
MaxCallers == 2
\* the limiter's clock stops advancing at MaxLimClock seconds
MaxLimClock == 60

\* a vote text is made of at most MaxVoteChunks streamed chunks
MaxVoteChunks == 2

\* personas of the council are 1..MaxPersonas, in declared order
MaxPersonas == 2
\* chunks the web agent streams to the persona tasks of one run, at most
MaxWebChunks == 1
\* chunks the web agent streams as votes in one run, at most
MaxCouncilVoteChunks == 1
\* the largest max_iterations a caller passes
MaxIterArg == 6
\* lines in the answer of the query-generation model, at most
MaxGeneratedLines == 4
\* chunks the primary backend streams in one call of chat_stream, at most
MaxPrimaryChunks == 1
\* content chunks a fallback client streams in one call, at most
MaxFallbackChunks == 1
\* calls of chat_stream on one router
MaxRouterCalls == 2
\* results one web search returns, at most
MaxResultsPerSearch == 1
\* the keys get_model_tab is called with are 1..MaxAgentKeys
MaxAgentKeys == 2
\* calls of get_model_tab, each in a thread of its own
MaxAgentThreads == 3
\* GeminiCouncilMember instances constructed in the process
MaxGeminiMembers == 2
\* threads that call the public operations of one TabPool
MaxPoolThreads == 2
\* tasks that call _ensure_model of one orchestrator
MaxEnsureTasks == 2

ModelIds == 1..MaxKeys
Sessions == 1..MaxSessions
Callers == 1..MaxCallers
\* seconds the clock may advance between two steps of the limiter
TickSteps == {15, 30}

-----------------------------------------------------------------------------
(* The components before they are constructed *)

PoolOff ==
    /\ max_tabs = 0
    /\ tabs = <<>>
    /\ last_used = <<>>
    /\ closed = {}
    /\ pool_call = None

LimOff ==
    /\ rpm_limit = 0
    /\ capacity = 0
    /\ tokens = 0
    /\ last_refill = 0
    /\ waiter = <<>>

VoteOff ==
    /\ vote_text = <<>>
    /\ votes = <<>>
    /\ vote_reasoning = <<>>

CouncilOff ==
    /\ fast_mode = FALSE
    /\ bitnet_present = FALSE
    /\ phase = None
    /\ phase_hist = <<>>
    /\ cpc = None
    /\ task = <<>>
    /\ queue = <<>>
    /\ finished = 0
    /\ opinions = <<>>
    /\ out = <<>>
    /\ vidx = 0
    /\ vote_n = 0
    /\ decree = None
    /\ pub = <<>>
    /\ failed = <<>>

\* the research variables, before any ResearchGraph is constructed
ResearchOff ==
    /\ config_max = 0
    /\ entry = None
    /\ rnode = None
    /\ max_iterations = 0
    /\ iteration_count = 0
    /\ gaps_found = FALSE
    /\ analysis = <<>>
    /\ analyze_calls = 0
    /\ search_results = <<>>
    /\ last_update = None
    /\ search_queries = <<>>
    /\ generation = [done |-> FALSE, failed |-> FALSE, usable |-> 0]
    /\ cloud_result = None
    /\ final_report = <<>>
    /\ node_trace = <<>>
    /\ stream_events = <<>>

\* the router variables, before any FallbackRouter is constructed
RouterOff ==
    /\ api_keys = {}
    /\ openrouter_client = FALSE
    /\ groq_client = FALSE
    /\ rpc = None
    /\ model_name = <<>>
    /\ rout = <<>>
    /\ primary_stream = <<>>
    /\ primary_failure = None
    /\ fallback = [provider |-> None, model |-> None]
    /\ rcalls = 0
    /\ fallback_stream = <<>>
    /\ supplied = {}

\* the agent variables, before any LMSYSAgent is constructed
AgentOff ==
    /\ active_models = <<>>
    /\ model_ready = <<>>
    /\ browser_tabs = {}
    /\ tabs_created = 0
    /\ gthreads = <<>>

\* the process before any GeminiCouncilMember is constructed
GeminiOff ==
    /\ gemini_members = <<>>
    /\ gemini_buckets = <<>>
    /\ gemini_sent = 0

\* the lock variables, before any TabPool is constructed
LockOff ==
    /\ pool_lock = 0
    /\ pool_threads = <<>>
    /\ last_access = None

\* the variables of _ensure_model, before any orchestrator is constructed
EnsureOff ==
    /\ has_bitnet = FALSE
    /\ model_lock = 0
    /\ active_local_model = None
    /\ ensure_calls = <<>>

-----------------------------------------------------------------------------
(* Clock *)

\* time.time() between two calls: the clock is non-decreasing; two calls may
\* read the same value.
Tick ==
    /\ now < MaxClock
    /\ now' = now + 1

-----------------------------------------------------------------------------
(* TabPool *)

\* keys of the OrderedDict, in iteration order
PoolKeys(t) == [i \in 1..Len(t) |-> t[i].id]

KeySet(t) == {t[i].id : i \in 1..Len(t)}

\* self._tabs[model_id]
TabOf(t, k) == (CHOOSE i \in 1..Len(t) : t[i].id = k)

\* del self._tabs[model_id]
DelKey(t, k) == SelectSeq(t, LAMBDA e : e.id # k)

\* the key keeps its place in the iteration order
KeepPlace(t, k) == t

\* self._tabs.move_to_end(model_id)
MoveToEnd(t, k) == Append(DelKey(t, k), t[TabOf(t, k)])

\* self._tabs[model_id] = tab : an existing key keeps its position
SetTab(t, k, s) ==
    IF k \in KeySet(t)
    THEN [i \in 1..Len(t) |-> IF t[i].id = k THEN [id |-> k, tab |-> s] ELSE t[i]]
    ELSE Append(t, [id |-> k, tab |-> s])

\* self._last_used.pop(model_id, None)
PopStamp(lu, k) == [x \in (DOMAIN lu) \ {k} |-> lu[x]]

\* self._last_used[model_id] = time.time()
SetStamp(lu, k, ts) == [x \in (DOMAIN lu) \cup {k} |-> IF x = k THEN ts ELSE lu[x]]

\* _remove_tab: the pool state [tabs, last_used, closed] after removing k
PoolState(t, lu, cl) == [tabs |-> t, last_used |-> lu, closed |-> cl]

RemoveTab(st, k) ==
    IF k \in KeySet(st.tabs)
    THEN PoolState(DelKey(st.tabs, k),
                   PopStamp(st.last_used, k),
                   st.closed \cup {st.tabs[TabOf(st.tabs, k)].tab})
    ELSE st

\* _evict_lru: the first item of the OrderedDict is removed
LruKey(t) == t[1].id

EvictLru(st) ==
    IF Len(st.tabs) = 0 THEN st ELSE RemoveTab(st, LruKey(st.tabs))

\* eviction whenever the pool is full, whether or not the key is present
AtCapacityAnyKey(t, mt, k) == Len(t) >= mt

\* the condition of put under which _evict_lru is called
AtCapacity(t, mt, k) == Len(t) >= mt /\ k \notin KeySet(t)

CurPool == PoolState(tabs, last_used, closed)

SetPool(st) ==
    /\ tabs' = st.tabs
    /\ last_used' = st.last_used
    /\ closed' = st.closed

\* outcomes of the health probe tab.ele('tag:body', timeout=0.5)
ProbeOutcomes == {"found", "nothing", "raises"}

\* the record of a public call: its name and arguments, what it returned,
\* whether the key was present, what the probe did and which keys it evicted;
\* an argument or result that is absent or None is <<>>, a value v is <<v>>
Call(name, k, s, ret, present, probe, ev) ==
    [name |-> name, key |-> k, tab |-> s, ret |-> ret, present |-> present,
     probe |-> probe, evicted |-> ev]

\* get(model_id) that stamps the key before it looks it up
GetStampsFirst(k, probe) ==
    IF k \notin KeySet(tabs)
    THEN /\ pool_call' = Call("get", <<k>>, <<>>, <<>>, FALSE, None, <<>>)
         /\ last_used' = SetStamp(last_used, k, now)
         /\ UNCHANGED <<tabs, closed>>
    ELSE IF probe = "found"
    THEN /\ tabs' = MoveToEnd(tabs, k)
         /\ last_used' = SetStamp(last_used, k, now)
         /\ closed' = closed
         /\ pool_call' = Call("get", <<k>>, <<>>, <<tabs[TabOf(tabs, k)].tab>>, TRUE, probe, <<>>)
    ELSE /\ SetPool(RemoveTab(CurPool, k))
         /\ pool_call' = Call("get", <<k>>, <<>>, <<>>, TRUE, probe, <<>>)

\* get(model_id) that returns the pooled tab whatever the probe says
GetUnprobed(k, probe) ==
    IF k \notin KeySet(tabs)
    THEN /\ pool_call' = Call("get", <<k>>, <<>>, <<>>, FALSE, None, <<>>)
         /\ UNCHANGED <<tabs, last_used, closed>>
    ELSE /\ tabs' = MoveToEnd(tabs, k)
         /\ last_used' = SetStamp(last_used, k, now)
         /\ closed' = closed
         /\ pool_call' = Call("get", <<k>>, <<>>, <<tabs[TabOf(tabs, k)].tab>>, TRUE, probe, <<>>)

\* get(model_id)
Get(k, probe) ==
    IF k \notin KeySet(tabs)
    THEN /\ pool_call' = Call("get", <<k>>, <<>>, <<>>, FALSE, None, <<>>)
         /\ UNCHANGED <<tabs, last_used, closed>>
    ELSE IF probe = "found"
    THEN /\ tabs' = MoveToEnd(tabs, k)
         /\ last_used' = SetStamp(last_used, k, now)
         /\ closed' = closed
         /\ pool_call' = Call("get", <<k>>, <<>>, <<tabs[TabOf(tabs, k)].tab>>, TRUE, probe, <<>>)
    ELSE /\ SetPool(RemoveTab(CurPool, k))
         /\ pool_call' = Call("get", <<k>>, <<>>, <<>>, TRUE, probe, <<>>)

\* put(model_id, tab)
Put(k, s) ==
    LET st == IF AtCapacity(tabs, max_tabs, k) THEN EvictLru(CurPool) ELSE CurPool
        ev == IF AtCapacity(tabs, max_tabs, k) /\ Len(tabs) > 0
              THEN <<LruKey(tabs)>> ELSE <<>>
    IN  /\ tabs' = MoveToEnd(SetTab(st.tabs, k, s), k)
        /\ last_used' = SetStamp(st.last_used, k, now)
        /\ closed' = st.closed
        /\ pool_call' = Call("put", <<k>>, <<s>>, <<>>, k \in KeySet(tabs), None, ev)

\* remove(model_id)
Remove(k) ==
    /\ SetPool(RemoveTab(CurPool, k))
    /\ pool_call' = Call("remove", <<k>>, <<>>, <<>>, k \in KeySet(tabs), None, <<>>)

\* clear(): _remove_tab on every key of list(self._tabs.keys())
RECURSIVE RemoveAll(_, _)
RemoveAll(st, ks) ==
    IF Len(ks) = 0 THEN st ELSE RemoveAll(RemoveTab(st, Head(ks)), Tail(ks))

Clear ==
    /\ SetPool(RemoveAll(CurPool, PoolKeys(tabs)))
    /\ pool_call' = Call("clear", <<>>, <<>>, <<>>, FALSE, None, <<>>)

\* TabPool.__init__(browser, max_tabs)
PoolInit ==
    /\ max_tabs \in 0..MaxTabsArg
    /\ tabs = <<>>
    /\ last_used = <<>>
    /\ closed = {}
    /\ pool_call = Call("init", <<>>, <<>>, <<>>, FALSE, None, <<>>)

PoolNext ==
    \/ \E k \in ModelIds, probe \in ProbeOutcomes :
          Get(k, probe) /\ UNCHANGED <<now, max_tabs, limVars, voteVars, councilVars, researchVars, routerVars, agentVars, geminiVars, lockVars, ensureVars>>
    \/ \E k \in ModelIds, s \in Sessions :
          Put(k, s) /\ UNCHANGED <<now, max_tabs, limVars, voteVars, councilVars, researchVars, routerVars, agentVars, geminiVars, lockVars, ensureVars>>
    \/ \E k \in ModelIds : Remove(k) /\ UNCHANGED <<now, max_tabs, limVars, voteVars, councilVars, researchVars, routerVars, agentVars, geminiVars, lockVars, ensureVars>>
    \/ Clear /\ UNCHANGED <<now, max_tabs, limVars, voteVars, councilVars, researchVars, routerVars, agentVars, geminiVars, lockVars, ensureVars>>
    \/ Tick /\ UNCHANGED <<poolVars, limVars, voteVars, councilVars, researchVars, routerVars, agentVars, geminiVars, lockVars, ensureVars>>

InitPool == now = 0 /\ PoolInit /\ LimOff /\ VoteOff /\ CouncilOff
            /\ ResearchOff /\ RouterOff /\ AgentOff /\ GeminiOff /\ LockOff /\ EnsureOff

SpecPool == InitPool /\ [][PoolNext]_vars

-----------------------------------------------------------------------------
(* RateLimitManager *)

\* refill_amount = elapsed * (rpm_limit / 60.0): one token is TokenUnit units,
\* so elapsed seconds refill elapsed * rpm_limit units
TokenUnit == 60

Min(a, b) == IF a <= b THEN a ELSE b

\* _refill without the cap
RefillUncapped(tk, elapsed) == tk + elapsed * rpm_limit

\* _refill: min(capacity, tokens + refill_amount)
Refill(tk, elapsed) == Min(capacity * TokenUnit, tk + elapsed * rpm_limit)

\* a pass that consumes a token and returns without looking at the count
LoopPassUnchecked(c) ==
    LET refilled == Refill(tokens, now - last_refill)
    IN  /\ last_refill' = now
        /\ tokens' = refilled - TokenUnit
        /\ waiter' = [waiter EXCEPT ![c] = [pc |-> "returned", since |-> 0]]
        /\ UNCHANGED <<rpm_limit, capacity>>

\* one pass of the while loop of wait_for_token, run without suspension:
\* _refill, then consume and return, or go to sleep
LoopPass(c) ==
    LET refilled == Refill(tokens, now - last_refill)
    IN  /\ last_refill' = now
        /\ IF refilled >= TokenUnit
           THEN /\ tokens' = refilled - TokenUnit
                /\ waiter' = [waiter EXCEPT ![c] = [pc |-> "returned", since |-> 0]]
           ELSE /\ tokens' = refilled
                /\ waiter' = [waiter EXCEPT ![c] = [pc |-> "sleeping", since |-> now]]
        /\ UNCHANGED <<rpm_limit, capacity>>

\* a caller enters wait_for_token
WaitForToken(c) ==
    /\ waiter[c].pc \in {"idle", "returned"}
    /\ LoopPass(c)

\* asyncio.sleep(60.0 / rpm_limit) is over: the loop runs again
WakeUp(c) ==
    /\ waiter[c].pc = "sleeping"
    /\ (now - waiter[c].since) * rpm_limit >= 60
    /\ LoopPass(c)

LimTick ==
    \E d \in TickSteps :
        /\ now + d <= MaxLimClock
        /\ now' = now + d

\* RateLimitManager.__init__(key, rpm_limit) with rpm_limit > 0
LimInit ==
    /\ rpm_limit \in 1..MaxRpm
    /\ capacity = rpm_limit
    /\ tokens = rpm_limit * TokenUnit
    /\ last_refill = now
    /\ waiter = [c \in Callers |-> [pc |-> "idle", since |-> 0]]

LimNext ==
    \/ \E c \in Callers : WaitForToken(c) /\ UNCHANGED <<now, poolVars, voteVars, councilVars, researchVars, routerVars, agentVars, geminiVars, lockVars, ensureVars>>
    \/ \E c \in Callers : WakeUp(c) /\ UNCHANGED <<now, poolVars, voteVars, councilVars, researchVars, routerVars, agentVars, geminiVars, lockVars, ensureVars>>
    \/ LimTick /\ UNCHANGED <<limVars, poolVars, voteVars, councilVars, researchVars, routerVars, agentVars, geminiVars, lockVars, ensureVars>>

InitLimiter == now = 0 /\ LimInit /\ PoolOff /\ VoteOff /\ CouncilOff
               /\ ResearchOff /\ RouterOff /\ AgentOff /\ GeminiOff /\ LockOff /\ EnsureOff

SpecLimiter == InitLimiter /\ [][LimNext]_vars

-----------------------------------------------------------------------------
(* Text: a str is the sequence of its characters *)

LowerAlpha == <<"a","b","c","d","e","f","g","h","i","j","k","l","m",
                "n","o","p","q","r","s","t","u","v","w","x","y","z">>
UpperAlpha == <<"A","B","C","D","E","F","G","H","I","J","K","L","M",
                "N","O","P","Q","R","S","T","U","V","W","X","Y","Z">>

IndexIn(alpha, c) == CHOOSE i \in 1..Len(alpha) : alpha[i] = c

UpperChar(c) ==
    IF \E i \in 1..Len(LowerAlpha) : LowerAlpha[i] = c
    THEN UpperAlpha[IndexIn(LowerAlpha, c)] ELSE c

LowerChar(c) ==
    IF \E i \in 1..Len(UpperAlpha) : UpperAlpha[i] = c
    THEN LowerAlpha[IndexIn(UpperAlpha, c)] ELSE c

\* str.upper()
Upper(s) == [i \in 1..Len(s) |-> UpperChar(s[i])]

\* str.lower()
Lower(s) == [i \in 1..Len(s) |-> LowerChar(s[i])]

\* pat in s
Contains(s, pat) ==
    \E i \in 0..(Len(s) - Len(pat)) : SubSeq(s, i + 1, i + Len(pat)) = pat

-----------------------------------------------------------------------------
(* run_council_stream: the vote of one persona *)

\* "VOTE: YES" and "VOTE: NO"
VOTE_YES == <<"V","O","T","E",":"," ","Y","E","S">>
VOTE_NO == <<"V","O","T","E",":"," ","N","O">>

\* the parse without upper()
ParseVoteCaseSensitive(text) ==
    IF Contains(text, VOTE_YES) THEN "yes"
    ELSE IF Contains(text, VOTE_NO) THEN "no"
    ELSE "abstain"

\* # Parse vote
ParseVote(text) ==
    LET upper_text == Upper(text)
    IN  IF Contains(upper_text, VOTE_YES) THEN "yes"
        ELSE IF Contains(upper_text, VOTE_NO) THEN "no"
        ELSE "abstain"

\* chunks a backend may stream as a vote
VoteChunks ==
    { VOTE_YES,
      <<"v","o","t","e",":"," ","y","e","s">>,
      VOTE_NO,
      <<"V","o","t","e",":"," ","n","o">>,
      <<"V","O","T","E",":"," ">>,
      <<"Y","E","S">>,
      <<"N","O">>,
      <<",", " ","b","e","c","a","u","s","e"," ","X">>,
      <<"I"," ","a","m"," ","u","n","s","u","r","e">> }

\* the texts of at most n chunks
RECURSIVE TextsOf(_)
TextsOf(n) ==
    IF n = 0 THEN {<<>>}
    ELSE TextsOf(n - 1) \cup {t \o c : t \in TextsOf(n - 1), c \in VoteChunks}

VoteTexts == TextsOf(MaxVoteChunks)

\* state["votes"][persona.id] = vote; state["vote_reasoning"][persona.id] = vote_text
RecordVote(p, text) ==
    /\ votes' = [x \in (DOMAIN votes) \cup {p} |->
                    IF x = p THEN ParseVote(text) ELSE votes[x]]
    /\ vote_reasoning' = [x \in (DOMAIN vote_reasoning) \cup {p} |->
                    IF x = p THEN text ELSE vote_reasoning[x]]

\* the vote text of a persona has been accumulated and is parsed
CastVote ==
    /\ 1 \notin DOMAIN votes
    /\ RecordVote(1, vote_text)
    /\ UNCHANGED vote_text

VoteInit ==
    /\ vote_text \in VoteTexts
    /\ votes = <<>>
    /\ vote_reasoning = <<>>

VoteNext ==
    \/ CastVote /\ UNCHANGED <<now, poolVars, limVars, councilVars, researchVars, routerVars, agentVars, geminiVars, lockVars, ensureVars>>

InitVote == now = 0 /\ VoteInit /\ PoolOff /\ LimOff /\ CouncilOff
            /\ ResearchOff /\ RouterOff /\ AgentOff /\ GeminiOff /\ LockOff /\ EnsureOff

SpecVote == InitVote /\ [][VoteNext]_vars

-----------------------------------------------------------------------------
(* LangGraphOrchestrator.run_council_stream *)

\* list(COUNCIL_PERSONAS.values()), in declared order
Personas == 1..MaxPersonas

\* the Literal of CouncilResponse.type
ResponseTypes == {"token", "status", "critique", "final", "error", "web_agent",
                  "vote", "complete"}

\* CouncilResponse(type=..., ...) validates its type
ValidType(t) == t \in ResponseTypes

Event(t, src, c) == [type |-> t, source |-> src, content |-> c]

\* source=None
NoSource == [kind |-> "none", id |-> 0]

\* source=persona.id
PersonaSource(p) == [kind |-> "persona", id |-> p]

\* source=f"{persona.id}_vote"
VoteSource(p) == [kind |-> "vote", id |-> p]

\* source="Chairman"
ChairmanSource == [kind |-> "Chairman", id |-> 0]

Status(c) == Event("status", NoSource, <<c>>)

\* content[i:i+32] for i in range(0, len(content), 32)
ChunkSize == 32

RECURSIVE ChunksOf(_)
ChunksOf(content) ==
    IF Len(content) = 0 THEN <<>>
    ELSE IF Len(content) <= ChunkSize THEN <<content>>
    ELSE <<SubSeq(content, 1, ChunkSize)>>
         \o ChunksOf(SubSeq(content, ChunkSize + 1, Len(content)))

\* a text of n distinct characters
TextOfLen(n) == [i \in 1..n |-> ToString(i)]

\* what result.get("content", "") can be when the hybrid local member answers:
\* nothing, less than a chunk, a chunk and one character more
LocalContents == {TextOfLen(0), TextOfLen(3), TextOfLen(ChunkSize + 1)}

\* the k-th chunk of the web-agent stream of persona p
WebChunk(p, k) == <<"w", ToString(p), ToString(k)>>

\* f"\n[WebAgent Error: {str(e)}]", put on the stream by the adapter's producer
WebErrorText == <<"[WebAgent Error]">>

\* the chunk the web agent streams as the vote of persona p in a council run:
\* the first persona votes yes, the second no, the others give no marker
CouncilVoteChunks(p) ==
    IF p = 1 THEN { VOTE_YES \o <<",", " ","b","e","c","a","u","s","e"," ","X">> }
    ELSE IF p = 2 THEN { VOTE_NO }
    ELSE { <<"I"," ","a","m"," ","u","n","s","u","r","e">> }

\* use_local = is_fast or persona.model_id in ["local", "bitnet", "ollama"];
\* no persona of COUNCIL_PERSONAS has such a model_id
UseLocal(p) == fast_mode

\* context of _node_init: rag.query returns a list (rag.py), so
\* results.get("documents") raises AttributeError, which is caught; an empty
\* list is falsy; a failed query is caught: the context stays ""
RagOutcomes == {"documents", "empty", "raises"}

RagContext(o) == <<>>

\* response.get("content", "The Council has reached no consensus.")
DefaultDecree == <<"The Council has reached no consensus.">>

ChairmanOutcomes == {"content", "failed"}

Decree(o) == IF o = "content" THEN <<"decree">> ELSE DefaultDecree

SetPhase(v) ==
    /\ phase' = v
    /\ phase_hist' = Append(phase_hist, v)

Yield(events) == out' = out \o events

\* a put that waits until the queue is empty
PublishBounded(p, es) ==
    /\ queue = <<>>
    /\ queue' = queue \o es
    /\ pub' = [pub EXCEPT ![p] = pub[p] \o es]

\* await q.put(...) of each event of es, by the task of persona p; the queue
\* is asyncio.Queue() with no maxsize, so the put never waits
Publish(p, es) ==
    /\ queue' = queue \o es
    /\ pub' = [pub EXCEPT ![p] = pub[p] \o es]

Complete(p) == Event("complete", PersonaSource(p), <<>>)

\* ---- the generator ----

\* yield status "Initializing Council Session..."
CStart ==
    /\ cpc = "start"
    /\ Yield(<<Status("Initializing Council Session...")>>)
    /\ cpc' = "init"
    /\ UNCHANGED <<fast_mode, bitnet_present, phase, phase_hist, task, queue, finished,
                   opinions, vidx, vote_n, decree, pub, failed, voteVars>>

\* state = await self._node_init(state), then the status events up to the launch
CInit ==
    /\ cpc = "init"
    /\ \E o \in RagOutcomes :
         Yield((IF RagContext(o) # <<>>
                THEN <<Status("Retrieved context from knowledge base")>> ELSE <<>>)
               \o <<Status("Summoning the Council for Parallel Deliberation...")>>)
    /\ SetPhase("deliberation")
    /\ opinions' = [p \in {} |-> <<>>]
    /\ votes' = <<>>
    /\ vote_reasoning' = <<>>
    /\ cpc' = "launch"
    /\ UNCHANGED <<fast_mode, bitnet_present, task, queue, finished, vidx, vote_n,
                   decree, pub, failed, vote_text>>

\* tasks = [asyncio.create_task(stream_persona(p, queue, fast_mode)) ...]
CLaunch ==
    /\ cpc = "launch"
    /\ task' = [p \in Personas |-> "start"]
    /\ pub' = [p \in Personas |-> <<>>]
    /\ finished' = 0
    /\ cpc' = "drain"
    /\ UNCHANGED <<fast_mode, bitnet_present, phase, phase_hist, queue, opinions, out,
                   vidx, vote_n, decree, failed, voteVars>>

\* the consumer counts an error event as a finished task
ConsumeCountsErrors(response) ==
    IF response.type \in {"complete", "error"}
    THEN /\ finished' = finished + 1
         /\ UNCHANGED <<opinions, out>>
    ELSE IF response.type = "token"
    THEN /\ opinions' = [x \in (DOMAIN opinions) \cup {response.source.id} |->
                            IF x = response.source.id
                            THEN (IF x \in DOMAIN opinions THEN opinions[x] ELSE <<>>)
                                 \o response.content
                            ELSE opinions[x]]
         /\ Yield(<<response>>)
         /\ UNCHANGED finished
    ELSE /\ Yield(<<response>>)
         /\ UNCHANGED <<finished, opinions>>

\* the consumer keeps the last chunk of a persona as its opinion
ConsumeKeepsLast(response) ==
    IF response.type = "complete"
    THEN /\ finished' = finished + 1
         /\ UNCHANGED <<opinions, out>>
    ELSE IF response.type = "token"
    THEN /\ opinions' = [x \in (DOMAIN opinions) \cup {response.source.id} |->
                            IF x = response.source.id THEN response.content
                            ELSE opinions[x]]
         /\ Yield(<<response>>)
         /\ UNCHANGED finished
    ELSE /\ Yield(<<response>>)
         /\ UNCHANGED <<finished, opinions>>

\* the body of the loop `while finished < len(personas)` on one response
Consume(response) ==
    IF response.type = "complete"
    THEN /\ finished' = finished + 1
         /\ UNCHANGED <<opinions, out>>
    ELSE IF response.type = "token"
    THEN /\ opinions' = [x \in (DOMAIN opinions) \cup {response.source.id} |->
                            IF x = response.source.id
                            THEN (IF x \in DOMAIN opinions THEN opinions[x] ELSE <<>>)
                                 \o response.content
                            ELSE opinions[x]]
         /\ Yield(<<response>>)
         /\ UNCHANGED finished
    ELSE /\ Yield(<<response>>)
         /\ UNCHANGED <<finished, opinions>>

\* response = await queue.get(), and the loop body
CDrain ==
    /\ cpc = "drain"
    /\ finished < MaxPersonas
    /\ queue # <<>>
    /\ queue' = Tail(queue)
    /\ Consume(Head(queue))
    /\ UNCHANGED <<fast_mode, bitnet_present, phase, phase_hist, cpc, task, vidx,
                   vote_n, decree, pub, failed, voteVars>>

\* the loop is left; yield status "Deliberations complete. Calling for votes..."
CCallVotes ==
    /\ cpc = "drain"
    /\ ~(finished < MaxPersonas)
    /\ Yield(<<Status("Deliberations complete. Calling for votes...")>>)
    /\ vidx' = 1
    /\ cpc' = "vote_announce"
    /\ UNCHANGED <<fast_mode, bitnet_present, phase, phase_hist, task, queue, finished,
                   opinions, vote_n, decree, pub, failed, voteVars>>

\* for persona in personas: yield status "... is reviewing and casting vote..."
CVoteAnnounce ==
    /\ cpc = "vote_announce"
    /\ Yield(<<Status("is reviewing and casting vote...")>>)
    /\ vote_text' = <<>>
    /\ cpc' = "vote_stream"
    /\ UNCHANGED <<fast_mode, bitnet_present, phase, phase_hist, task, queue, finished,
                   opinions, vidx, vote_n, decree, pub, failed, votes, vote_reasoning>>

\* async for chunk in self.web_agent.chat_stream(vote_prompt, ...): one chunk
CVoteChunk ==
    /\ cpc = "vote_stream"
    /\ vote_n < MaxCouncilVoteChunks
    /\ \E c \in CouncilVoteChunks(vidx) :
         /\ vote_text' = vote_text \o c
         /\ Yield(<<Event("token", VoteSource(vidx), c)>>)
    /\ vote_n' = vote_n + 1
    /\ UNCHANGED <<fast_mode, bitnet_present, phase, phase_hist, cpc, task, queue,
                   finished, opinions, vidx, decree, pub, failed, votes, vote_reasoning>>

\* the vote event carries the id of the persona at the other end of the list
VoteEventReversed(p, v) == <<Event("vote", PersonaSource(MaxPersonas + 1 - p), <<v>>)>>

\* yield CouncilResponse(type="vote", source=persona.id, content=vote)
VoteEvent(p, v) == <<Event("vote", PersonaSource(p), <<v>>)>>

\* the vote stream has ended: parse, record, yield the vote
CVoteCast ==
    /\ cpc = "vote_stream"
    /\ RecordVote(vidx, vote_text)
    /\ Yield(VoteEvent(vidx, ParseVote(vote_text)))
    /\ vidx' = vidx + 1
    /\ cpc' = IF vidx = MaxPersonas THEN "synth_status" ELSE "vote_announce"
    /\ UNCHANGED <<fast_mode, bitnet_present, phase, phase_hist, task, queue, finished,
                   opinions, vote_n, decree, pub, failed, vote_text>>

\* yield status "Chairman is synthesizing the final decree..."
CSynthStatus ==
    /\ cpc = "synth_status"
    /\ Yield(<<Status("Chairman is synthesizing the final decree...")>>)
    /\ cpc' = "synthesis"
    /\ UNCHANGED <<fast_mode, bitnet_present, phase, phase_hist, task, queue, finished,
                   opinions, vidx, vote_n, decree, pub, failed, voteVars>>

\* the chairman, in the record of failures
Chairman == 0

\* state = await self._node_synthesis(state); yield final
CSynthesis ==
    /\ cpc = "synthesis"
    /\ \E o \in ChairmanOutcomes :
         /\ decree' = Decree(o)
         /\ Yield(<<Event("final", ChairmanSource, Decree(o))>>)
         /\ failed' = IF o = "failed"
                      THEN [x \in (DOMAIN failed) \cup {Chairman} |->
                              IF x = Chairman THEN "status" ELSE failed[x]]
                      ELSE failed
    /\ SetPhase("complete")
    /\ cpc' = "tally"
    /\ UNCHANGED <<fast_mode, bitnet_present, task, queue, finished, opinions, vidx,
                   vote_n, pub, voteVars>>

Count(v) == Cardinality({p \in DOMAIN votes : votes[p] = v})

\* yield CouncilResponse(type="tally", content=json.dumps(tally))
CTally ==
    /\ cpc = "tally"
    /\ IF ValidType("tally")
       THEN /\ Yield(<<Event("tally", NoSource,
                           <<ToString(Count("yes")), ToString(Count("no")),
                             ToString(Count("abstain"))>>)>>)
            /\ cpc' = "done"
       ELSE /\ cpc' = "raised"
            /\ UNCHANGED out
    /\ UNCHANGED <<fast_mode, bitnet_present, phase, phase_hist, task, queue, finished,
                   opinions, vidx, vote_n, decree, pub, failed, voteVars>>

\* ---- stream_persona ----

\* a stream_persona task runs from asyncio.create_task on; the generator never
\* cancels it, neither when it goes on nor when it is closed
TasksRun == cpc \in {"drain", "closed"}

TaskFrame == UNCHANGED <<fast_mode, bitnet_present, phase, phase_hist, cpc, finished,
                         opinions, out, vidx, vote_n, decree, voteVars>>

Fail(p, how) == failed' = [x \in (DOMAIN failed) \cup {p} |-> IF x = p THEN how ELSE failed[x]]

\* the completion event is put only when the body did not raise
ErrorOnly(p) == <<Event("error", PersonaSource(p), <<"str(e)">>)>>

\* the except branch, then the completion event
ErrorAndComplete(p) == <<Event("error", PersonaSource(p), <<"str(e)">>), Complete(p)>>

\* fast path, self.bitnet is None: the call raises AttributeError at once
TLocalNoBitnet(p) ==
    /\ TasksRun
    /\ task[p] = "start"
    /\ UseLocal(p)
    /\ ~bitnet_present
    /\ Publish(p, ErrorAndComplete(p))
    /\ Fail(p, "raised")
    /\ task' = [task EXCEPT ![p] = "done"]
    /\ TaskFrame

\* fast path: result = await self.bitnet.generate_opinion(prompt)
TLocalCall(p) ==
    /\ TasksRun
    /\ task[p] = "start"
    /\ UseLocal(p)
    /\ bitnet_present
    /\ task' = [task EXCEPT ![p] = "awaiting"]
    /\ UNCHANGED <<queue, pub, failed>>
    /\ TaskFrame

\* the hybrid local member answers with content: the chunks, then complete
TLocalContent(p) ==
    /\ TasksRun
    /\ task[p] = "awaiting"
    /\ \E content \in LocalContents :
         Publish(p, [i \in 1..Len(ChunksOf(content)) |->
                        Event("token", PersonaSource(p), ChunksOf(content)[i])]
                    \o <<Complete(p)>>)
    /\ task' = [task EXCEPT ![p] = "done"]
    /\ UNCHANGED failed
    /\ TaskFrame

\* the hybrid local member answers {"status": "failed", ...} without content
TLocalFailed(p) ==
    /\ TasksRun
    /\ task[p] = "awaiting"
    /\ Publish(p, <<Complete(p)>>)
    /\ Fail(p, "status")
    /\ task' = [task EXCEPT ![p] = "done"]
    /\ TaskFrame

\* web path: async for chunk in self.web_agent.chat_stream(...)
TWebCall(p) ==
    /\ TasksRun
    /\ task[p] = "start"
    /\ ~UseLocal(p)
    /\ task' = [task EXCEPT ![p] = "streaming"]
    /\ UNCHANGED <<queue, pub, failed>>
    /\ TaskFrame

\* how many chunks the web agent has streamed to the persona tasks of this run
WebChunksStreamed == Cardinality({x \in Personas \X (1..MaxWebChunks) :
                                    /\ x[2] <= Len(pub[x[1]])
                                    /\ pub[x[1]][x[2]].type = "token"
                                    /\ pub[x[1]][x[2]].content # WebErrorText})

\* one chunk of the stream
TWebChunk(p) ==
    /\ TasksRun
    /\ task[p] = "streaming"
    /\ WebChunksStreamed < MaxWebChunks
    /\ Publish(p, <<Event("token", PersonaSource(p), WebChunk(p, Len(pub[p]) + 1))>>)
    /\ UNCHANGED <<task, failed>>
    /\ TaskFrame

\* the agent raises in the adapter's producer thread: the adapter puts the
\* error text on the stream, which reaches the task as one more chunk
TWebFail(p) ==
    /\ TasksRun
    /\ task[p] = "streaming"
    /\ Publish(p, <<Event("token", PersonaSource(p), WebErrorText)>>)
    /\ Fail(p, "text")
    /\ task' = [task EXCEPT ![p] = "ending"]
    /\ TaskFrame

\* the stream ends: the completion event
TWebEnd(p) ==
    /\ TasksRun
    /\ task[p] \in {"streaming", "ending"}
    /\ Publish(p, <<Complete(p)>>)
    /\ task' = [task EXCEPT ![p] = "done"]
    /\ UNCHANGED failed
    /\ TaskFrame

\* run_council_stream(user_prompt, fast_mode) is called on an orchestrator
CouncilInit ==
    /\ fast_mode \in BOOLEAN
    \* self.bitnet is read on the local path only
    /\ bitnet_present \in (IF fast_mode THEN BOOLEAN ELSE {FALSE})
    /\ phase = "init"
    /\ phase_hist = <<"init">>
    /\ cpc = "start"
    /\ task = <<>>
    /\ queue = <<>>
    /\ finished = 0
    /\ opinions = <<>>
    /\ out = <<>>
    /\ vidx = 0
    /\ vote_n = 0
    /\ decree = <<>>
    /\ pub = <<>>
    /\ failed = <<>>
    /\ vote_text = <<>>
    /\ votes = <<>>
    /\ vote_reasoning = <<>>

OthersThanCouncil == <<now, poolVars, limVars, researchVars, routerVars, agentVars, geminiVars, lockVars, ensureVars>>

CouncilNext ==
    \/ CStart /\ UNCHANGED OthersThanCouncil
    \/ CInit /\ UNCHANGED OthersThanCouncil
    \/ CLaunch /\ UNCHANGED OthersThanCouncil
    \/ CDrain /\ UNCHANGED OthersThanCouncil
    \/ CCallVotes /\ UNCHANGED OthersThanCouncil
    \/ CVoteAnnounce /\ UNCHANGED OthersThanCouncil
    \/ CVoteChunk /\ UNCHANGED OthersThanCouncil
    \/ CVoteCast /\ UNCHANGED OthersThanCouncil
    \/ CSynthStatus /\ UNCHANGED OthersThanCouncil
    \/ CSynthesis /\ UNCHANGED OthersThanCouncil
    \/ CTally /\ UNCHANGED OthersThanCouncil
    \/ \E p \in Personas : TLocalNoBitnet(p) /\ UNCHANGED OthersThanCouncil
    \/ \E p \in Personas : TLocalCall(p) /\ UNCHANGED OthersThanCouncil
    \/ \E p \in Personas : TLocalContent(p) /\ UNCHANGED OthersThanCouncil
    \/ \E p \in Personas : TLocalFailed(p) /\ UNCHANGED OthersThanCouncil
    \/ \E p \in Personas : TWebCall(p) /\ UNCHANGED OthersThanCouncil
    \/ \E p \in Personas : TWebChunk(p) /\ UNCHANGED OthersThanCouncil
    \/ \E p \in Personas : TWebFail(p) /\ UNCHANGED OthersThanCouncil
    \/ \E p \in Personas : TWebEnd(p) /\ UNCHANGED OthersThanCouncil

InitCouncil == now = 0 /\ CouncilInit /\ PoolOff /\ LimOff /\ ResearchOff /\ RouterOff /\ AgentOff /\ GeminiOff /\ LockOff /\ EnsureOff

\* a step of the stream_persona task of persona p
TaskStep(p) ==
    \/ TLocalNoBitnet(p) \/ TLocalCall(p) \/ TLocalContent(p) \/ TLocalFailed(p)
    \/ TWebCall(p) \/ TWebChunk(p) \/ TWebFail(p) \/ TWebEnd(p)

SpecCouncil == InitCouncil /\ [][CouncilNext]_vars

\* the consumer stops reading during DELIBERATION, or the run is cancelled: the
\* generator is closed where it waits for the queue or at a yield. It has no
\* try/finally and no handler: the tasks it created are left as they are.
CClose ==
    /\ cpc = "drain"
    /\ cpc' = "closed"
    /\ UNCHANGED <<fast_mode, bitnet_present, phase, phase_hist, task, queue, finished,
                   opinions, out, vidx, vote_n, decree, pub, failed, voteVars>>

CouncilCancelNext ==
    \/ CouncilNext
    \/ CClose /\ UNCHANGED OthersThanCouncil

SpecCouncilCancel == InitCouncil /\ [][CouncilCancelNext]_vars

\* the event loop runs every task that is ready, and every awaited backend
\* call returns
SpecCouncilFair == SpecCouncil /\ WF_vars(CouncilNext)

-----------------------------------------------------------------------------
(* ResearchGraph *)

\* config.MAX_RESEARCH_ITERATIONS, the default of ResearchConfig.max_iterations
MAX_RESEARCH_ITERATIONS == 3

\* the values a caller passes as max_iterations
IterArgs == (-1)..MaxIterArg

\* max_iterations: Optional[int]; <<>> is None
OptIterArgs == {<<>>} \cup {<<n>> : n \in IterArgs}

\* ResearchConfig() or ResearchConfig(max_iterations=n), for the default, a
\* zero and the largest n
ConfigValues == {MAX_RESEARCH_ITERATIONS, 0, MaxIterArg}

\* max_iterations or self.config.max_iterations
OrConfig(arg, cfg) == IF arg = <<>> \/ arg[1] = 0 THEN cfg ELSE arg[1]

Max(a, b) == IF a >= b THEN a ELSE b

RESEARCH_COMPLETE == <<"R","E","S","E","A","R","C","H"," ","C","O","M","P","L","E","T","E">>

\* what the analysis model answers
Analyses ==
    { <<"R","e","s","e","a","r","c","h"," ","c","o","m","p","l","e","t","e",".">>,
      <<"G","a","p","s",":"," ","c","o","s","t">>,
      <<>> }

\* how model = self._get_cloud_model(); result = await model.generate_opinion(prompt)
\* ends for the answers in texts: the constructor raises, generate_opinion
\* catches the error of generate_content and returns the dict of status
\* "failed", which has no "content", or it returns the dict of status "success"
CloudOutcomes(texts) ==
    {[raises |-> TRUE, status |-> "raised", content |-> <<>>],
     [raises |-> FALSE, status |-> "failed", content |-> <<>>]}
    \cup {[raises |-> FALSE, status |-> "success", content |-> t] : t \in texts}

\* result.get("content", default)
GetContent(result, default) == IF result.status = "success" THEN result.content ELSE default

\* how the call of the analysis model ends
AnalyzeOutcomes == CloudOutcomes(Analyses)

\* one element of the dicts research_stream yields; the text of a status event
\* is not kept, report is the content of a report event
StreamEvent(type, node, report) == [type |-> type, node |-> node, report |-> report]

\* what research_stream yields for the output of one node: one status event
\* per entry of status_updates, then the report if final_report is non-empty
NodeEvents(node, report) ==
    <<StreamEvent("status", node, <<>>)>>
    \o (IF report # <<>> THEN <<StreamEvent("report", node, report)>> ELSE <<>>)

\* the events of the run after a node has returned; research() yields nothing
Yielded(node, report) ==
    IF entry = "research_stream" THEN stream_events \o NodeEvents(node, report)
    ELSE stream_events

\* no query generation has run in this run
NotGenerated == [done |-> FALSE, failed |-> FALSE, usable |-> 0]

\* initial_state of research and research_stream, and the entry point of the graph
StartRun(e, cap) ==
    /\ entry' = e
    /\ max_iterations' = cap
    /\ iteration_count' = 0
    /\ gaps_found' = FALSE
    /\ analysis' = <<>>
    /\ analyze_calls' = 0
    /\ search_results' = <<>>
    /\ last_update' = "Starting research"
    /\ search_queries' = <<>>
    /\ generation' = NotGenerated
    /\ cloud_result' = None
    /\ final_report' = <<>>
    /\ node_trace' = <<>>
    /\ stream_events' = IF e = "research_stream"
                         THEN <<StreamEvent("status", "research_stream", <<>>)>>
                         ELSE <<>>
    /\ rnode' = "generate_queries"

\* ResearchGraph.research(query, max_iterations)
Research(arg) ==
    /\ rnode = "idle"
    /\ StartRun("research", OrConfig(arg, config_max))
    /\ UNCHANGED config_max

\* ResearchGraph.research_stream(query, max_iterations)
ResearchStream(arg) ==
    /\ rnode = "idle"
    /\ StartRun("research_stream", OrConfig(arg, config_max))
    /\ UNCHANGED config_max

\* deep_research(query, max_iterations) of research_graph.py
DeepResearch(n) ==
    /\ rnode = "idle"
    /\ config_max' = n
    /\ StartRun("deep_research", OrConfig(<<n>>, n))

\* max(1, min(5, request.max_iterations)) of the endpoint
Clamp(n) == Max(1, Min(5, n))

\* POST /api/research
ApiResearch(n) ==
    /\ rnode = "idle"
    /\ config_max' = Clamp(n)
    /\ StartRun("api", OrConfig(<<Clamp(n)>>, Clamp(n)))

\* ResearchConfig.queries_per_iteration
QUERIES_PER_ITERATION == 3

\* state["user_query"]
UserQuery == <<"q">>

IsSpace(c) == c \in {" ", "\n"}

\* str.strip()
RECURSIVE LStrip(_)
LStrip(t) == IF Len(t) > 0 /\ IsSpace(Head(t)) THEN LStrip(Tail(t)) ELSE t

RECURSIVE RStrip(_)
RStrip(t) ==
    IF Len(t) > 0 /\ IsSpace(t[Len(t)]) THEN RStrip(SubSeq(t, 1, Len(t) - 1)) ELSE t

Strip(t) == RStrip(LStrip(t))

\* the lines the model answers with: a blank line, or a query with blanks around it
GeneratedLines == {<<" ">>, <<" ", "a", " ">>}

\* content.strip().split("\n") of an answer of 1..MaxGeneratedLines lines
SplitContents == UNION {[1..n -> GeneratedLines] : n \in 1..MaxGeneratedLines}

\* how the call of the local model ends: it raises, it returns no content, or
\* it returns content, given by its lines
GenerateOutcomes ==
    {[raises |-> TRUE, lines |-> <<>>], [raises |-> FALSE, lines |-> <<<<>>>>]}
    \cup {[raises |-> FALSE, lines |-> ls] : ls \in SplitContents}

\* [q.strip() for q in lines if q.strip()]
RECURSIVE ParseQueries(_)
ParseQueries(lines) ==
    IF Len(lines) = 0 THEN <<>>
    ELSE IF Strip(Head(lines)) # <<>>
    THEN <<Strip(Head(lines))>> \o ParseQueries(Tail(lines))
    ELSE ParseQueries(Tail(lines))

\* the list is kept whole
KeepAll(qs, n) == qs

\* queries[:n] for n >= 0
Truncate(qs, n) == SubSeq(qs, 1, Min(n, Len(qs)))

\* if not queries: queries = [state["user_query"]]
OrUserQuery(qs) == IF qs = <<>> THEN <<UserQuery>> ELSE qs

\* state["search_queries"] after _generate_queries_node
QueriesOf(o) ==
    IF o.raises THEN <<UserQuery>>
    ELSE OrUserQuery(Truncate(ParseQueries(o.lines), QUERIES_PER_ITERATION))

\* lines of the answer that hold something other than blanks
UsableLines(lines) == Cardinality({i \in 1..Len(lines) : \E j \in 1..Len(lines[i]) : ~IsSpace(lines[i][j])})

\* _generate_queries_node, and the edge to web_search
GenerateQueries ==
    /\ rnode = "generate_queries"
    /\ rnode' = "web_search"
    /\ \E o \in GenerateOutcomes :
         /\ search_queries' = QueriesOf(o)
         /\ generation' = [done |-> TRUE, failed |-> o.raises, usable |-> UsableLines(o.lines)]
         /\ last_update' = IF o.raises THEN "Using original query (generation failed)"
                            ELSE "Generated search queries"
    /\ node_trace' = Append(node_trace, "generate_queries")
    /\ stream_events' = Yielded("generate_queries", <<>>)
    /\ UNCHANGED <<config_max, entry, max_iterations, iteration_count, gaps_found,
                   analysis, analyze_calls, search_results, cloud_result, final_report>>

\* how self.search_node.search ends: it raises, or returns n results
SearchOutcomes == [raises : BOOLEAN, n : 0..MaxResultsPerSearch]

\* the results of one search, as fresh result ids
NewResults(existing, n) == [k \in 1..n |-> Len(existing) + k]

\* the new results replace the list
ReplaceResults(existing, new) == new

\* all_results = existing + result_dicts
MergeResults(existing, new) == existing \o new

\* _web_search_node, and the edge to analyze
WebSearch ==
    /\ rnode = "web_search"
    /\ rnode' = "analyze"
    /\ \E o \in SearchOutcomes :
         IF o.raises
         THEN /\ last_update' = "Search error"
              /\ UNCHANGED search_results
         ELSE /\ last_update' = "Found new results"
              /\ search_results' = MergeResults(search_results, NewResults(search_results, o.n))
    /\ node_trace' = Append(node_trace, "web_search")
    /\ stream_events' = Yielded("web_search", <<>>)
    /\ UNCHANGED <<config_max, entry, max_iterations, iteration_count, gaps_found,
                   analysis, analyze_calls, search_queries, generation, cloud_result,
                   final_report>>

\* gaps_found of _analyze_node
GapsFound(o, iteration, max_iter) ==
    IF o.raises THEN FALSE
    ELSE IF iteration >= max_iter THEN FALSE
    ELSE ~Contains(Upper(GetContent(o, <<>>)), RESEARCH_COMPLETE)

\* "continue" leads to web_search
EdgeToWebSearch(r) == IF r = "continue" THEN "web_search" ELSE "synthesize"

\* _should_continue
ShouldContinue(g) == IF g THEN "continue" ELSE "done"

\* the conditional edges out of analyze
EdgeFromAnalyze(r) == IF r = "continue" THEN "generate_queries" ELSE "synthesize"

\* _analyze_node, and the conditional edge
Analyze ==
    /\ rnode = "analyze"
    /\ \E o \in AnalyzeOutcomes :
         /\ analysis' = GetContent(o, <<>>)
         /\ cloud_result' = o.status
         /\ gaps_found' = GapsFound(o, iteration_count + 1, max_iterations)
         /\ rnode' = EdgeFromAnalyze(ShouldContinue(GapsFound(o, iteration_count + 1, max_iterations)))
         /\ last_update' = IF o.raises THEN "Analysis error, completing research"
                            ELSE IF GapsFound(o, iteration_count + 1, max_iterations)
                            THEN "Analysis complete. Gaps found, continuing..."
                            ELSE "Analysis complete. Research complete."
    /\ iteration_count' = iteration_count + 1
    /\ analyze_calls' = analyze_calls + 1
    /\ node_trace' = Append(node_trace, "analyze")
    /\ stream_events' = Yielded("analyze", <<>>)
    /\ UNCHANGED <<config_max, entry, max_iterations, search_results,
                   search_queries, generation, final_report>>

\* f"Research synthesis failed: {str(e)}"
SYNTHESIS_FAILED ==
    <<"R","e","s","e","a","r","c","h"," ","s","y","n","t","h","e","s","i","s"," ",
      "f","a","i","l","e","d",":"," ","e">>

\* the default of result.get("content", "No report generated.")
NO_REPORT ==
    <<"N","o"," ","r","e","p","o","r","t"," ","g","e","n","e","r","a","t","e","d",".">>

\* what the synthesis model answers
Reports == {<<>>, <<"r","e","p","o","r","t">>}

\* how the call of the synthesis model ends
SynthesizeOutcomes == CloudOutcomes(Reports)

\* final_report of _synthesize_node
ReportOf(o) == IF o.raises THEN SYNTHESIS_FAILED ELSE GetContent(o, NO_REPORT)

\* _synthesize_node, and the edge to END
Synthesize ==
    /\ rnode = "synthesize"
    /\ rnode' = "end"
    /\ \E o \in SynthesizeOutcomes :
         /\ cloud_result' = o.status
         /\ final_report' = ReportOf(o)
         /\ last_update' = IF o.raises THEN "Synthesis error" ELSE "Final report synthesized"
         /\ stream_events' = Yielded("synthesize", ReportOf(o))
    /\ node_trace' = Append(node_trace, "synthesize")
    /\ UNCHANGED <<config_max, entry, max_iterations, iteration_count, gaps_found,
                   analysis, analyze_calls, search_results, search_queries, generation>>

\* a ResearchGraph has been constructed
ResearchInit ==
    /\ config_max \in ConfigValues
    /\ entry = None
    /\ rnode = "idle"
    /\ max_iterations = 0
    /\ iteration_count = 0
    /\ gaps_found = FALSE
    /\ analysis = <<>>
    /\ analyze_calls = 0
    /\ search_results = <<>>
    /\ last_update = None
    /\ search_queries = <<>>
    /\ generation = NotGenerated
    /\ cloud_result = None
    /\ final_report = <<>>
    /\ node_trace = <<>>
    /\ stream_events = <<>>

OthersThanResearch == <<now, poolVars, limVars, voteVars, councilVars, routerVars,
                        agentVars, geminiVars, lockVars, ensureVars>>

ResearchNext ==
    \/ \E arg \in OptIterArgs : Research(arg) /\ UNCHANGED OthersThanResearch
    \/ \E arg \in OptIterArgs : ResearchStream(arg) /\ UNCHANGED OthersThanResearch
    \/ \E n \in IterArgs : DeepResearch(n) /\ UNCHANGED OthersThanResearch
    \/ \E n \in IterArgs : ApiResearch(n) /\ UNCHANGED OthersThanResearch
    \/ GenerateQueries /\ UNCHANGED OthersThanResearch
    \/ WebSearch /\ UNCHANGED OthersThanResearch
    \/ Analyze /\ UNCHANGED OthersThanResearch
    \/ Synthesize /\ UNCHANGED OthersThanResearch

InitResearch == now = 0 /\ ResearchInit /\ PoolOff /\ LimOff /\ VoteOff /\ CouncilOff
                /\ RouterOff /\ AgentOff /\ GeminiOff /\ LockOff /\ EnsureOff

SpecResearch == InitResearch /\ [][ResearchNext]_vars

\* every node of the graph that is scheduled runs and returns
SpecResearchFair == SpecResearch /\ WF_vars(ResearchNext)

-----------------------------------------------------------------------------
(* FallbackRouter *)

Providers == {"openrouter", "groq", "google"}

\* DEFAULT_FALLBACKS, in the order of the dict
DEFAULT_FALLBACKS ==
    << [key |-> <<"g","p","t","-","4","o">>,
        provider |-> "openrouter", model |-> "deepseek-r1"],
       [key |-> <<"g","p","t","-","4">>,
        provider |-> "openrouter", model |-> "deepseek-r1"],
       [key |-> <<"g","p","t","-","5">>,
        provider |-> "openrouter", model |-> "deepseek-r1"],
       [key |-> <<"c","l","a","u","d","e","-","3",".","5">>,
        provider |-> "openrouter", model |-> "qwen3-32b"],
       [key |-> <<"c","l","a","u","d","e","-","4">>,
        provider |-> "openrouter", model |-> "qwen3-32b"],
       [key |-> <<"g","e","m","i","n","i","-","p","r","o">>,
        provider |-> "google", model |-> "gemini-2.0-flash"],
       [key |-> <<"g","e","m","i","n","i">>,
        provider |-> "google", model |-> "gemini-2.0-flash"],
       [key |-> <<"l","l","a","m","a","-","3",".","3">>,
        provider |-> "groq", model |-> "llama-3.3-70b"],
       [key |-> <<"l","l","a","m","a">>,
        provider |-> "groq", model |-> "llama-3.3-70b"],
       [key |-> <<"m","i","s","t","r","a","l">>,
        provider |-> "openrouter", model |-> "mistral-small"] >>

\* fallback = ("openrouter", "deepseek-r1")
DefaultFallback == [provider |-> "openrouter", model |-> "deepseek-r1"]

NoFallback == [provider |-> None, model |-> None]

GPT_4o == <<"G","P","T","-","4","o">>

\* the display names callers ask for
ModelNames ==
    { GPT_4o,
      <<"G","P","T"," ","4">>,
      <<"C","l","a","u","d","e"," ","4">>,
      <<"G","e","m","i","n","i"," ","P","r","o">>,
      <<"L","l","a","m","a"," ","3",".","3">>,
      <<"M","i","s","t","r","a","l"," ","L","l","a","m","a">>,
      <<"o","1">> }

\* str.replace(" ", "-")
ReplaceSpaces(s) == [i \in 1..Len(s) |-> IF s[i] = " " THEN "-" ELSE s[i]]

\* model_key = model_name.lower().replace(" ", "-")
ModelKey(name) == ReplaceSpaces(Lower(name))

\* the entries of DEFAULT_FALLBACKS whose key is in model_key
Matching(name) ==
    {i \in 1..Len(DEFAULT_FALLBACKS) : Contains(ModelKey(name), DEFAULT_FALLBACKS[i].key)}

\* the loop runs to the end of the table, the last match wins
LastMatchFor(name) ==
    IF Matching(name) = {} THEN DefaultFallback
    ELSE LET i == CHOOSE i \in Matching(name) : \A j \in Matching(name) : i >= j
         IN  [provider |-> DEFAULT_FALLBACKS[i].provider, model |-> DEFAULT_FALLBACKS[i].model]

\* the loop over DEFAULT_FALLBACKS.items() with its break, and the default
FallbackFor(name) ==
    IF Matching(name) = {} THEN DefaultFallback
    ELSE LET i == CHOOSE i \in Matching(name) : \A j \in Matching(name) : i <= j
         IN  [provider |-> DEFAULT_FALLBACKS[i].provider, model |-> DEFAULT_FALLBACKS[i].model]

\* _get_openrouter returns a client
GetOpenrouter == openrouter_client \/ "openrouter" \in api_keys

\* _get_groq returns a client
GetGroq == groq_client \/ "groq" \in api_keys

\* the client _try_fallback obtains for the provider; it has no branch for google
ClientFor(provider) ==
    IF provider = "openrouter" THEN GetOpenrouter
    ELSE IF provider = "groq" THEN GetGroq
    ELSE FALSE

\* the provider argument _try_fallback passes to _wrap_fallback
ProviderName(provider) == IF provider = "openrouter" THEN "OpenRouter" ELSE "Groq"

\* a fragment chat_stream yields
Fragment(kind, text, original, fm, prov) ==
    [kind |-> kind, text |-> text, original |-> original, model |-> fm, provider |-> prov]

\* f"[FALLBACK:{original_model}->{fallback_model}@{provider}]\n"
Notice(original_model, fallback_model, provider) ==
    Fragment("notice", "FALLBACK", original_model, fallback_model, provider)

\* a chunk of client.chat_stream(prompt, fallback_model, system_prompt)
FallbackChunkOf(text) ==
    Fragment("fallback", text, <<>>, fallback.model, ProviderName(fallback.provider))

\* a chunk of agent.chat_stream(prompt, model_id, model_name)
PrimaryChunkOf(text) == Fragment("primary", text, <<>>, "", "")

\* the generator is relayed with no notification ahead of it
WrapWithoutNotice(original_model, fallback_model, provider) == <<>>

\* _wrap_fallback: what is yielded before the generator is relayed
WrapFallback(original_model, fallback_model, provider) ==
    <<Notice(original_model, fallback_model, provider)>>

CountKind(fs, kind) == Cardinality({i \in 1..Len(fs) : fs[i].kind = kind})

\* a chunk of the primary stream is swallowed
RelayNothing(chunk) == <<>>

\* for chunk in agent.chat_stream(...): yield chunk
Relay(chunk) == <<chunk>>

\* what is yielded next replaces what has been yielded
YieldInstead(yielded, fragments) == fragments

\* a generator's yields come after the ones the consumer already has
YieldAfter(yielded, fragments) == yielded \o fragments

\* the handler ends the stream without saying why
EndSilently(name) == <<>>

\* yield f"\n[RATE_LIMITED:{model_name}]"
RateLimitedNotice(name) == <<Fragment("rate_limited", "RATE_LIMITED", name, "", "")>>

\* the handler ends the stream with no error fragment
NoInlineError(e) == <<>>

\* yield f"\n[Error: {str(e)}]"
InlineError(e) == <<Fragment("error", e, <<>>, "", "")>>

RouterFrame == UNCHANGED <<api_keys, openrouter_client, groq_client, model_name,
                           primary_failure, fallback, rcalls, supplied>>

\* chat_stream(prompt, model_id, model_name) is called
ChatStream(name) ==
    /\ rpc \in {"idle", "done"}
    /\ rcalls < MaxRouterCalls
    /\ rcalls' = rcalls + 1
    /\ model_name' = name
    /\ rout' = <<>>
    /\ primary_stream' = <<>>
    /\ primary_failure' = None
    /\ fallback' = NoFallback
    /\ fallback_stream' = <<>>
    /\ rpc' = "primary"
    /\ UNCHANGED <<api_keys, openrouter_client, groq_client, supplied>>

\* for chunk in agent.chat_stream(...): yield chunk
PrimaryChunk(text) ==
    /\ rpc = "primary"
    /\ Len(primary_stream) < MaxPrimaryChunks
    /\ primary_stream' = Append(primary_stream, PrimaryChunkOf(text))
    /\ rout' = rout \o Relay(PrimaryChunkOf(text))
    /\ rpc' = rpc
    /\ UNCHANGED fallback_stream
    /\ RouterFrame

\* the primary stream ends
PrimaryEnd ==
    /\ rpc = "primary"
    /\ rpc' = "done"
    /\ UNCHANGED <<rout, primary_stream, fallback_stream>>
    /\ RouterFrame

\* except RateLimitError: _try_fallback, then the first fragment
PrimaryRateLimited ==
    /\ rpc = "primary"
    /\ primary_failure' = "rate_limit"
    /\ LET fb == FallbackFor(model_name) IN
         /\ fallback' = fb
         /\ openrouter_client' = IF fb.provider = "openrouter" THEN GetOpenrouter
                                 ELSE openrouter_client
         /\ groq_client' = IF fb.provider = "groq" THEN GetGroq ELSE groq_client
         /\ IF ClientFor(fb.provider)
            THEN /\ rout' = YieldAfter(rout, WrapFallback(model_name, fb.model,
                                                           ProviderName(fb.provider)))
                 /\ rpc' = "fallback"
            ELSE /\ rout' = rout \o RateLimitedNotice(model_name)
                 /\ rpc' = "no_fallback"
    /\ UNCHANGED <<api_keys, model_name, rcalls, primary_stream, fallback_stream, supplied>>

\* yield "\n[Configure API keys in Settings for automatic fallback]"
ConfigureNotice ==
    /\ rpc = "no_fallback"
    /\ rout' = Append(rout, Fragment("configure", "Configure API keys", <<>>, "", ""))
    /\ rpc' = "done"
    /\ UNCHANGED <<primary_stream, fallback_stream>>
    /\ RouterFrame

\* yield from generator: one chunk of the fallback stream
FallbackChunk ==
    /\ rpc = "fallback"
    /\ CountKind(rout, "fallback") < MaxFallbackChunks
    /\ fallback_stream' = Append(fallback_stream, FallbackChunkOf("content"))
    /\ rout' = Append(rout, FallbackChunkOf("content"))
    /\ rpc' = rpc
    /\ UNCHANGED primary_stream
    /\ RouterFrame

\* the fallback client fails: it yields the error as text, and its stream ends
FallbackFails ==
    /\ rpc = "fallback"
    /\ fallback_stream' = Append(fallback_stream, FallbackChunkOf("[Error]"))
    /\ rout' = Append(rout, FallbackChunkOf("[Error]"))
    /\ rpc' = "fallback_ended"
    /\ UNCHANGED primary_stream
    /\ RouterFrame

\* the fallback stream ends
FallbackEnd ==
    /\ rpc \in {"fallback", "fallback_ended"}
    /\ rpc' = "done"
    /\ UNCHANGED <<rout, primary_stream, fallback_stream>>
    /\ RouterFrame

\* except Exception: yield f"\n[Error: {str(e)}]"
PrimaryError ==
    /\ rpc = "primary"
    /\ primary_failure' = "error"
    /\ rout' = rout \o InlineError("[Error]")
    /\ rpc' = "done"
    /\ UNCHANGED <<api_keys, openrouter_client, groq_client, model_name, fallback, rcalls,
                   primary_stream, fallback_stream, supplied>>

\* the locals of a finished call of chat_stream are gone
ForgetCall ==
    /\ rpc' = "idle"
    /\ model_name' = <<>>
    /\ rout' = <<>>
    /\ primary_stream' = <<>>
    /\ fallback_stream' = <<>>
    /\ primary_failure' = None
    /\ fallback' = NoFallback
    /\ UNCHANGED rcalls

\* get_router(api_keys) of a request that passes a non-empty dict, no call of
\* chat_stream being in progress
UpdateKeys(keys) ==
    /\ rpc \in {"idle", "done"}
    /\ keys # api_keys \/ keys # supplied
    /\ api_keys' = keys
    /\ openrouter_client' = FALSE
    /\ groq_client' = FALSE
    /\ supplied' = keys
    /\ ForgetCall

\* get_router(None) or get_router({}) of a request that passes no credentials:
\* the singleton is returned as it is
GetRouterNoKeys ==
    /\ rpc \in {"idle", "done"}
    /\ supplied' = {}
    /\ UNCHANGED <<api_keys, openrouter_client, groq_client>>
    /\ ForgetCall

\* FallbackRouter(api_keys) has been constructed
RouterInit ==
    /\ api_keys \in SUBSET Providers
    /\ openrouter_client = FALSE
    /\ groq_client = FALSE
    /\ rpc = "idle"
    /\ model_name = <<>>
    /\ rout = <<>>
    /\ primary_stream = <<>>
    /\ primary_failure = None
    /\ fallback = NoFallback
    /\ rcalls = 0
    /\ fallback_stream = <<>>
    /\ supplied = api_keys

OthersThanRouter == <<now, poolVars, limVars, voteVars, councilVars, researchVars,
                      agentVars, geminiVars, lockVars, ensureVars>>

RouterNext ==
    \/ \E name \in ModelNames : ChatStream(name) /\ UNCHANGED OthersThanRouter
    \/ \E text \in {"content", "[CHALLENGE:cloudflare]"} :
          PrimaryChunk(text) /\ UNCHANGED OthersThanRouter
    \/ PrimaryEnd /\ UNCHANGED OthersThanRouter
    \/ PrimaryRateLimited /\ UNCHANGED OthersThanRouter
    \/ ConfigureNotice /\ UNCHANGED OthersThanRouter
    \/ FallbackChunk /\ UNCHANGED OthersThanRouter
    \/ FallbackFails /\ UNCHANGED OthersThanRouter
    \/ FallbackEnd /\ UNCHANGED OthersThanRouter
    \/ PrimaryError /\ UNCHANGED OthersThanRouter
    \/ \E keys \in SUBSET Providers : UpdateKeys(keys) /\ UNCHANGED OthersThanRouter
    \/ GetRouterNoKeys /\ UNCHANGED OthersThanRouter

InitRouter == now = 0 /\ RouterInit /\ PoolOff /\ LimOff /\ VoteOff /\ CouncilOff
              /\ ResearchOff /\ AgentOff /\ GeminiOff /\ LockOff /\ EnsureOff

SpecRouter == InitRouter /\ [][RouterNext]_vars

-----------------------------------------------------------------------------
(* LMSYSAgent.get_model_tab, called from executor threads *)

AgentKeys == 1..MaxAgentKeys

\* no tab
NoTab == 0

GThread(pc, k, tab) == [pc |-> pc, key |-> k, tab |-> tab]

SetThread(i, pc, tab) ==
    gthreads' = [gthreads EXCEPT ![i] = GThread(pc, gthreads[i].key, tab)]

\* `_ = tab.url` succeeds on a tab that is still open in the browser
Alive(tab) == \E t \in browser_tabs : t.id = tab

\* tabs open in the browser that were opened for key k
OpenFor(k) == {t \in browser_tabs : t.key = k}

\* a thread enters get_model_tab(model_id, model_name): the producer of
\* WebAgentService.chat_stream, run by run_in_executor
StartGetModelTab(k) ==
    /\ Len(gthreads) < MaxAgentThreads
    /\ gthreads' = Append(gthreads, GThread("check", k, NoTab))
    /\ UNCHANGED <<active_models, model_ready, browser_tabs, tabs_created>>

\* warmup_council: one asyncio.to_thread(get_model_tab, mid, mod) per persona
WarmupCouncil ==
    /\ Len(gthreads) + MaxAgentKeys <= MaxAgentThreads
    /\ gthreads' = gthreads \o [k \in 1..MaxAgentKeys |-> GThread("check", k, NoTab)]
    /\ UNCHANGED <<active_models, model_ready, browser_tabs, tabs_created>>

\* _cleanup_tab(model_id)
CleanupTab(k) ==
    /\ active_models' = [active_models EXCEPT ![k] = NoTab]
    /\ model_ready' = [model_ready EXCEPT ![k] = "absent"]

\* get_model_tab, `if model_id in self.active_models`: an existing tab that is
\* alive is returned, a dead one is cleaned up, and the thread goes on to
\* create a tab when it has none to return
GCheck(i) ==
    /\ gthreads[i].pc = "check"
    /\ LET k == gthreads[i].key
           tab == active_models[k]
       IN  IF tab # NoTab /\ Alive(tab)
           THEN /\ SetThread(i, "done", tab)
                /\ UNCHANGED <<active_models, model_ready>>
           ELSE IF tab # NoTab
           THEN /\ CleanupTab(k)
                /\ SetThread(i, "create", NoTab)
           ELSE /\ SetThread(i, "create", NoTab)
                /\ UNCHANGED <<active_models, model_ready>>
    /\ UNCHANGED <<browser_tabs, tabs_created>>

\* tab = self.browser.new_tab(LMSYS_URL)
GNewTab(i) ==
    /\ gthreads[i].pc = "create"
    /\ tabs_created' = tabs_created + 1
    /\ browser_tabs' = browser_tabs \cup {[id |-> tabs_created + 1, key |-> gthreads[i].key]}
    /\ SetThread(i, "store", tabs_created + 1)
    /\ UNCHANGED <<active_models, model_ready>>

\* self.active_models[model_id] = tab; self._model_ready[model_id] = False; return tab
GStore(i) ==
    /\ gthreads[i].pc = "store"
    /\ active_models' = [active_models EXCEPT ![gthreads[i].key] = gthreads[i].tab]
    /\ model_ready' = [model_ready EXCEPT ![gthreads[i].key] = "false"]
    /\ SetThread(i, "done", gthreads[i].tab)
    /\ UNCHANGED <<browser_tabs, tabs_created>>

\* a tab disconnects: it is closed in the browser, by the user or by a crash
TabDisconnects(tab) ==
    /\ Alive(tab)
    /\ browser_tabs' = {t \in browser_tabs : t.id # tab}
    /\ UNCHANGED <<active_models, model_ready, tabs_created, gthreads>>

\* LMSYSAgent.__init__: the browser is started, no model has a tab
AgentInit ==
    /\ active_models = [k \in AgentKeys |-> NoTab]
    /\ model_ready = [k \in AgentKeys |-> "absent"]
    /\ browser_tabs = {}
    /\ tabs_created = 0
    /\ gthreads = <<>>

OthersThanAgent == <<now, poolVars, limVars, voteVars, councilVars, researchVars,
                     routerVars, geminiVars, lockVars, ensureVars>>

AgentNext ==
    \/ \E k \in AgentKeys : StartGetModelTab(k) /\ UNCHANGED OthersThanAgent
    \/ WarmupCouncil /\ UNCHANGED OthersThanAgent
    \/ \E i \in 1..Len(gthreads) : GCheck(i) /\ UNCHANGED OthersThanAgent
    \/ \E i \in 1..Len(gthreads) : GNewTab(i) /\ UNCHANGED OthersThanAgent
    \/ \E i \in 1..Len(gthreads) : GStore(i) /\ UNCHANGED OthersThanAgent
    \/ \E tab \in 1..tabs_created : TabDisconnects(tab) /\ UNCHANGED OthersThanAgent

InitAgent == now = 0 /\ AgentInit /\ PoolOff /\ LimOff /\ VoteOff /\ CouncilOff
             /\ ResearchOff /\ RouterOff /\ GeminiOff /\ LockOff /\ EnsureOff

SpecAgent == InitAgent /\ [][AgentNext]_vars

-----------------------------------------------------------------------------
(* GeminiCouncilMember and its RateLimitManager *)

\* backend/config.py
GEMINI_RPM_LIMIT == 13

\* who constructs a GeminiCouncilMember
GeminiOwners == {"CouncilOrchestrator", "ResearchGraph"}

\* GeminiCouncilMember.__init__: self.limiter = RateLimitManager("gemini",
\* rpm_limit=GEMINI_RPM_LIMIT), a bucket of its own that starts full
CreateGemini(owner) ==
    /\ Len(gemini_members) < MaxGeminiMembers
    /\ gemini_buckets' = Append(gemini_buckets, GEMINI_RPM_LIMIT)
    /\ gemini_members' = Append(gemini_members,
                                [owner |-> owner, limiter |-> Len(gemini_buckets) + 1])
    /\ UNCHANGED gemini_sent

\* council_deliberate: orchestrator = CouncilOrchestrator(); its __init__ sets
\* self.gemini = LLMFactory.create_gemini(), a new GeminiCouncilMember()
CouncilDeliberate == CreateGemini("CouncilOrchestrator")

\* ResearchGraph._get_cloud_model on a graph that has no cloud model yet
GetCloudModel == CreateGemini("ResearchGraph")

\* generate_opinion of member m: wait_for_token takes a token of the member's
\* own limiter (the clock does not advance here, so _refill adds nothing), then
\* generate_content is called; with no token the caller sleeps
GenerateOpinion(m) ==
    LET b == gemini_members[m].limiter
    IN  /\ gemini_buckets[b] >= 1
        /\ gemini_buckets' = [gemini_buckets EXCEPT ![b] = @ - 1]
        /\ gemini_sent' = gemini_sent + 1
        /\ UNCHANGED gemini_members

\* a process in which nothing has been constructed yet
GeminiInit ==
    /\ gemini_members = <<>>
    /\ gemini_buckets = <<>>
    /\ gemini_sent = 0

OthersThanGemini == <<now, poolVars, limVars, voteVars, councilVars, researchVars,
                      routerVars, agentVars, lockVars, ensureVars>>

GeminiNext ==
    \/ CouncilDeliberate /\ UNCHANGED OthersThanGemini
    \/ GetCloudModel /\ UNCHANGED OthersThanGemini
    \/ \E m \in 1..Len(gemini_members) : GenerateOpinion(m) /\ UNCHANGED OthersThanGemini

InitGemini == now = 0 /\ GeminiInit /\ PoolOff /\ LimOff /\ VoteOff /\ CouncilOff
              /\ ResearchOff /\ RouterOff /\ AgentOff /\ LockOff /\ EnsureOff

SpecGemini == InitGemini /\ [][GeminiNext]_vars

-----------------------------------------------------------------------------
(* TabPool: which operations hold self._lock while they touch the pool *)

PoolThreads == 1..MaxPoolThreads

\* no thread
NoThread == 0

\* the public operations whose body is `with self._lock:`
LockedOps == {"get", "put", "remove", "clear"}

\* the properties, whose body reads self._tabs directly
Properties == {"size", "models"}

\* the public operations and properties of TabPool
AllOps == LockedOps \cup Properties

\* the operations that take the lock before they touch the pool
TakesLock == LockedOps

PThread(op, pc) == [op |-> op, pc |-> pc]

\* a thread calls a public operation: one that takes the lock waits for it, a
\* property goes straight to its read
PoolCall(t, op) ==
    /\ pool_threads[t].pc = "idle"
    /\ pool_threads' = [pool_threads EXCEPT
                          ![t] = PThread(op, IF op \in TakesLock THEN "acquire" ELSE "read")]
    /\ UNCHANGED <<pool_lock, last_access>>

\* with self._lock: __enter__
Acquire(t) ==
    /\ pool_threads[t].pc = "acquire"
    /\ pool_lock = NoThread
    /\ pool_lock' = t
    /\ pool_threads' = [pool_threads EXCEPT ![t].pc = "first"]
    /\ UNCHANGED last_access

\* an access to self._tabs or self._last_used by thread t
Access(t) ==
    last_access' = [thread |-> t, op |-> pool_threads[t].op, holder |-> pool_lock]

\* the body of a locked operation touches the pool more than once: the lookup
\* or eviction, then the update of _tabs and _last_used
FirstAccess(t) ==
    /\ pool_threads[t].pc = "first"
    /\ Access(t)
    /\ pool_threads' = [pool_threads EXCEPT ![t].pc = "second"]
    /\ UNCHANGED pool_lock

SecondAccess(t) ==
    /\ pool_threads[t].pc = "second"
    /\ Access(t)
    /\ pool_threads' = [pool_threads EXCEPT ![t].pc = "release"]
    /\ UNCHANGED pool_lock

\* with self._lock: __exit__, and the return
Release(t) ==
    /\ pool_threads[t].pc = "release"
    /\ pool_lock' = NoThread
    /\ pool_threads' = [pool_threads EXCEPT ![t].pc = "idle"]
    /\ UNCHANGED last_access

\* size: return len(self._tabs); models: return list(self._tabs.keys())
ReadProperty(t) ==
    /\ pool_threads[t].pc = "read"
    /\ Access(t)
    /\ pool_threads' = [pool_threads EXCEPT ![t].pc = "idle"]
    /\ UNCHANGED pool_lock

\* TabPool.__init__: self._lock = Lock()
LockInit ==
    /\ pool_lock = NoThread
    /\ pool_threads = [t \in PoolThreads |-> PThread(None, "idle")]
    /\ last_access = [thread |-> NoThread, op |-> None, holder |-> NoThread]

OthersThanLock == <<now, poolVars, limVars, voteVars, councilVars, researchVars,
                    routerVars, agentVars, geminiVars, ensureVars>>

LockNext ==
    \/ \E t \in PoolThreads, op \in AllOps : PoolCall(t, op) /\ UNCHANGED OthersThanLock
    \/ \E t \in PoolThreads : Acquire(t) /\ UNCHANGED OthersThanLock
    \/ \E t \in PoolThreads : FirstAccess(t) /\ UNCHANGED OthersThanLock
    \/ \E t \in PoolThreads : SecondAccess(t) /\ UNCHANGED OthersThanLock
    \/ \E t \in PoolThreads : Release(t) /\ UNCHANGED OthersThanLock
    \/ \E t \in PoolThreads : ReadProperty(t) /\ UNCHANGED OthersThanLock

InitLock == now = 0 /\ LockInit /\ PoolOff /\ LimOff /\ VoteOff /\ CouncilOff
            /\ ResearchOff /\ RouterOff /\ AgentOff /\ GeminiOff /\ EnsureOff

SpecLock == InitLock /\ [][LockNext]_vars

-----------------------------------------------------------------------------
(* LangGraphOrchestrator._ensure_model, called from tasks of one event loop *)

EnsureTasks == 1..MaxEnsureTasks

\* asyncio.Lock() is not held
Unlocked == 0

\* model_type: Literal["bitnet", "ollama"]
LocalTypes == {"bitnet", "ollama"}

\* the methods of LocalCouncilMember, the class of self.local
LocalMethods == {"generate_opinion", "unload"}

\* a call of _ensure_model: its argument, where it stands, what it returned
\* and whether it unloaded ollama
EnsureCall(type, pc, ret, unloaded) ==
    [type |-> type, pc |-> pc, ret |-> ret, unloaded |-> unloaded]

\* a task calls _ensure_model(model_type)
EnsureModel(t, type) ==
    /\ ensure_calls[t].pc \in {"idle", "returned", "raised"}
    /\ ensure_calls' = [ensure_calls EXCEPT ![t] = EnsureCall(type, "acquire", FALSE, FALSE)]
    /\ UNCHANGED <<has_bitnet, model_lock, active_local_model>>

\* async with self._model_lock: __aenter__
EnsureAcquire(t) ==
    /\ ensure_calls[t].pc = "acquire"
    /\ model_lock = Unlocked
    /\ model_lock' = t
    /\ ensure_calls' = [ensure_calls EXCEPT ![t].pc = "locked"]
    /\ UNCHANGED <<has_bitnet, active_local_model>>

\* the model that is marked active for a request: bitnet falls back to ollama
\* when BitNet is not available
Loaded(type) == IF type = "bitnet" /\ ~has_bitnet THEN "ollama" ELSE type

\* the body of the async with, and __aexit__: self.local.unload_model raises
\* AttributeError when LocalCouncilMember has no such method
EnsureBody(t) ==
    /\ ensure_calls[t].pc = "locked"
    /\ model_lock' = Unlocked
    /\ LET type == ensure_calls[t].type
           unloads == active_local_model = "ollama"
       IN  IF active_local_model = type
           THEN /\ ensure_calls' = [ensure_calls EXCEPT ![t] = EnsureCall(type, "returned", TRUE, FALSE)]
                /\ UNCHANGED active_local_model
           ELSE IF unloads /\ "unload_model" \notin LocalMethods
           THEN /\ ensure_calls' = [ensure_calls EXCEPT ![t] = EnsureCall(type, "raised", FALSE, FALSE)]
                /\ UNCHANGED active_local_model
           ELSE /\ ensure_calls' = [ensure_calls EXCEPT ![t] = EnsureCall(type, "returned", TRUE, unloads)]
                /\ active_local_model' = Loaded(type)
    /\ UNCHANGED has_bitnet

\* LangGraphOrchestrator.__init__
EnsureInit ==
    /\ has_bitnet \in BOOLEAN
    /\ model_lock = Unlocked
    /\ active_local_model = None
    /\ ensure_calls = [t \in EnsureTasks |-> EnsureCall(None, "idle", FALSE, FALSE)]

OthersThanEnsure == <<now, poolVars, limVars, voteVars, councilVars, researchVars,
                      routerVars, agentVars, geminiVars, lockVars>>

EnsureNext ==
    \/ \E t \in EnsureTasks, type \in LocalTypes : EnsureModel(t, type) /\ UNCHANGED OthersThanEnsure
    \/ \E t \in EnsureTasks : EnsureAcquire(t) /\ UNCHANGED OthersThanEnsure
    \/ \E t \in EnsureTasks : EnsureBody(t) /\ UNCHANGED OthersThanEnsure

InitEnsure == now = 0 /\ EnsureInit /\ PoolOff /\ LimOff /\ VoteOff /\ CouncilOff
              /\ ResearchOff /\ RouterOff /\ AgentOff /\ GeminiOff /\ LockOff

SpecEnsure == InitEnsure /\ [][EnsureNext]_vars

-----------------------------------------------------------------------------
(* Claims about TabPool, under SpecPool *)

\* a step of the pool that is a public call named n (the clock does not move
\* during a call, and every call rewrites pool_call)
PoolCallStep(n) == pool_call'.name = n /\ now' = now /\ max_tabs' = max_tabs

\* C1: after any sequence of get, put, remove and clear calls the number of
\* pooled entries never exceeds max_tabs.
C1_PoolNeverExceedsMaxTabs == Len(tabs) <= max_tabs

\* C2: a put of an absent key into a pool at capacity evicts exactly one entry
\* before the insert: the entry with the oldest last-used timestamp among those
\* present, whose session is closed.
C2_PutAtCapacityEvictsOldest ==
    [][ (PoolCallStep("put") /\ Len(tabs) = max_tabs
            /\ pool_call'.key[1] \notin KeySet(tabs))
        => /\ Len(pool_call'.evicted) = 1
           /\ LET e == pool_call'.evicted[1]
              IN  /\ e \in KeySet(tabs)
                  /\ \A k \in KeySet(tabs) : last_used[e] <= last_used[k]
                  /\ tabs[TabOf(tabs, e)].tab \in closed'
                  /\ KeySet(tabs') = (KeySet(tabs) \ {e}) \cup {pool_call'.key[1]}
      ]_vars

\* C3: get on a key that is not in the pool returns none and leaves the
\* entries, their order, their recency stamps and the sessions untouched; the
\* state being unchanged, a repeated call does the same.
C3_GetAbsentHasNoEffect ==
    [][ (PoolCallStep("get") /\ pool_call'.key[1] \notin KeySet(tabs))
        => /\ pool_call'.ret = <<>>
           /\ tabs' = tabs
           /\ last_used' = last_used
           /\ closed' = closed
      ]_vars

\* a get has missed on a pool that holds entries and stamps
C3_Witness ==
    /\ pool_call.name = "get"
    /\ ~pool_call.present
    /\ pool_call.ret = <<>>
    /\ Len(tabs) >= 1
    /\ pool_call.key[1] \notin KeySet(tabs)

\* C23: get on a present key probes the session. When the probe finds the body
\* the session is returned and the key becomes most-recently-used, nothing
\* being closed; when the probe finds nothing or raises, the entry is removed,
\* its session is closed and none is returned.
C23_GetProbesPresentKey ==
    [][ (PoolCallStep("get") /\ pool_call'.key[1] \in KeySet(tabs))
        => LET k == pool_call'.key[1]
               s == tabs[TabOf(tabs, k)].tab
           IN  /\ pool_call'.probe \in ProbeOutcomes
               /\ pool_call'.probe = "found" =>
                     /\ pool_call'.ret = <<s>>
                     /\ tabs'[Len(tabs')] = [id |-> k, tab |-> s]
                     /\ KeySet(tabs') = KeySet(tabs)
                     /\ closed' = closed
               /\ pool_call'.probe # "found" =>
                     /\ k \notin KeySet(tabs')
                     /\ k \notin DOMAIN last_used'
                     /\ s \in closed'
                     /\ pool_call'.ret = <<>>
      ]_vars

\* a get whose probe raised has removed the entry, other entries staying
C23_Witness ==
    /\ pool_call.name = "get"
    /\ pool_call.present
    /\ pool_call.probe = "raises"
    /\ pool_call.key[1] \notin KeySet(tabs)
    /\ closed # {}
    /\ Len(tabs) >= 1

\* C24: put on a key already in the pool evicts nothing, even at capacity: the
\* keys stay the same, no session is closed, the key's session is the new one
\* and the key is most-recently-used; put on an absent key below capacity
\* evicts nothing either.
C24_PutPresentEvictsNothing ==
    [][ PoolCallStep("put")
        => LET k == pool_call'.key[1]
           IN  /\ k \in KeySet(tabs) =>
                     /\ pool_call'.evicted = <<>>
                     /\ KeySet(tabs') = KeySet(tabs)
                     /\ Len(tabs') = Len(tabs)
                     /\ closed' = closed
                     /\ tabs'[Len(tabs')] = [id |-> k, tab |-> pool_call'.tab[1]]
               /\ (k \notin KeySet(tabs) /\ Len(tabs) < max_tabs) =>
                     /\ pool_call'.evicted = <<>>
                     /\ KeySet(tabs') = KeySet(tabs) \cup {k}
                     /\ closed' = closed
                     /\ tabs'[Len(tabs')] = [id |-> k, tab |-> pool_call'.tab[1]]
      ]_vars

\* a put on a present key has been made on a pool at capacity that holds
\* another key in front of it
C24_Witness ==
    /\ pool_call.name = "put"
    /\ pool_call.present
    /\ max_tabs >= 2
    /\ Len(tabs) = max_tabs
    /\ pool_call.evicted = <<>>
    /\ tabs[Len(tabs)].id = pool_call.key[1]

\* C36: every session that leaves the pool is closed by the pool: when a step
\* removes an entry, or stores another session under its key, the session the
\* entry held has had close() called on it.
C36_LeavingSessionsClosed ==
    [][\A i \in 1..Len(tabs) :
          LET k == tabs[i].id
              s == tabs[i].tab
          IN  (k \notin KeySet(tabs') \/ tabs'[TabOf(tabs', k)].tab # s) => s \in closed'
      ]_vars

\* C37: the recency map and the ordered map have the same keys, and the
\* iteration order of the ordered map is non-decreasing in the last-used
\* timestamps of the keys.
C37_OrderMatchesRecency ==
    /\ DOMAIN last_used = KeySet(tabs)
    /\ \A i, j \in 1..Len(tabs) :
          i <= j => last_used[tabs[i].id] <= last_used[tabs[j].id]

\* a get has moved the older of two entries behind the other
C37_Witness ==
    /\ pool_call.name = "get"
    /\ pool_call.ret # <<>>
    /\ Len(tabs) = 2
    /\ tabs[2].id = pool_call.key[1]
    /\ last_used[tabs[1].id] < last_used[tabs[2].id]

-----------------------------------------------------------------------------
(* Claims about the lock of TabPool, under SpecLock *)

\* C25: every access to the pool's order structure and recency stamps, by any
\* public operation or property, is made by the thread that holds the lock.
C25_AccessUnderLock ==
    last_access.thread # NoThread => last_access.holder = last_access.thread

-----------------------------------------------------------------------------
(* Claims about _ensure_model, under SpecEnsure *)

\* task t leaves the body of the async with, having asked for bitnet while
\* ollama was the active model
SwitchFromOllama(t) ==
    /\ ensure_calls[t].pc = "locked"
    /\ ensure_calls'[t].pc # "locked"
    /\ active_local_model = "ollama"
    /\ ensure_calls[t].type = "bitnet"

\* C35: _ensure_model switches the active local model under one exclusive
\* lock, and one model at most is recorded active; a call that asks for the
\* other model while ollama is active returns True, ollama having been
\* unloaded before the other model is recorded.
C35_SwitchUnloadsOllama ==
    /\ [](/\ Cardinality({t \in EnsureTasks : ensure_calls[t].pc = "locked"}) <= 1
          /\ active_local_model \in {None} \cup LocalTypes)
    /\ [][\A t \in EnsureTasks :
            SwitchFromOllama(t) =>
              /\ ensure_calls'[t].pc = "returned"
              /\ ensure_calls'[t].ret
              /\ ensure_calls'[t].unloaded]_vars

-----------------------------------------------------------------------------
(* Claims about RateLimitManager, under SpecLimiter *)

\* C4: for any rpm_limit > 0 the token count stays within [0, capacity] in
\* every reachable state, under any interleaving of refills and consumptions
\* by concurrent wait_for_token callers.
C4_TokensWithinCapacity ==
    /\ 0 <= tokens
    /\ tokens <= capacity * TokenUnit

\* the bucket has run dry with a caller asleep on it, and time has passed
C4_Witness ==
    /\ \E c \in Callers : waiter[c].pc = "sleeping"
    /\ \E c \in Callers : waiter[c].pc = "returned"
    /\ tokens < TokenUnit
    /\ now > 0

\* a step in which a call of wait_for_token returns: a pass of the loop was
\* made (the clock stands still and the limiter changes) and no caller went to
\* sleep in it
ReturnStep ==
    /\ now' = now
    /\ limVars' # limVars
    /\ \A c \in Callers : waiter'[c].pc = "sleeping" => waiter'[c] = waiter[c]

\* C26: a return of wait_for_token happens only when, after the refill, at
\* least one token is available, and it takes exactly one token from the
\* refilled count, which does not fall below 0; the other callers are left
\* where they were.
C26_ReturnConsumesOneToken ==
    [][ ReturnStep
        => LET refilled == Min(capacity * TokenUnit,
                               tokens + (now - last_refill) * rpm_limit)
           IN  /\ refilled >= TokenUnit
               /\ tokens' = refilled - TokenUnit
               /\ tokens' >= 0
               /\ Cardinality({c \in Callers : waiter'[c] # waiter[c]}) <= 1
      ]_vars

\* of two concurrent callers one has returned with the last token and the
\* other sleeps
C26_Witness ==
    /\ \E c, d \in Callers :
          /\ c # d
          /\ waiter[c].pc = "returned"
          /\ waiter[d].pc = "sleeping"
          /\ waiter[d].since = now
    /\ tokens < TokenUnit
    /\ last_refill = now

-----------------------------------------------------------------------------
(* Claims about the vote parse, under SpecVote *)

\* the two characters are the same letter, whatever their case
SameLetter(a, b) == LowerChar(a) = LowerChar(b)

\* the marker occurs somewhere in the text, compared letter by letter
HasMarker(text, m) ==
    \E i \in 1..Len(text) :
        /\ i + Len(m) - 1 <= Len(text)
        /\ \A j \in 1..Len(m) : SameLetter(text[i + j - 1], m[j])

\* C7: the recorded vote is a function of the accumulated vote text, compared
\* case-insensitively: a text with 'VOTE: YES' gives yes, otherwise one with
\* 'VOTE: NO' gives no, any other text gives abstain; 'VOTE: YES, because X'
\* is yes, 'VOTE: NO' is no and 'I am unsure' is abstain.
C7_VoteClassification ==
    \A p \in DOMAIN votes :
        LET t == vote_reasoning[p]
        IN  /\ votes[p] = IF HasMarker(t, VOTE_YES) THEN "yes"
                          ELSE IF HasMarker(t, VOTE_NO) THEN "no"
                          ELSE "abstain"
            /\ t = VOTE_YES \o <<",", " ","b","e","c","a","u","s","e"," ","X">>
                   => votes[p] = "yes"
            /\ t = VOTE_NO => votes[p] = "no"
            /\ t = <<"I"," ","a","m"," ","u","n","s","u","r","e">>
                   => votes[p] = "abstain"

\* a vote given in lower case with a rationale after it has been recorded
C7_Witness ==
    /\ 1 \in DOMAIN votes
    /\ vote_reasoning[1] = <<"v","o","t","e",":"," ","y","e","s">>
                           \o <<",", " ","b","e","c","a","u","s","e"," ","X">>
    /\ votes[1] = "yes"

-----------------------------------------------------------------------------
(* Claims about run_council_stream, under SpecCouncil and SpecCouncilFair *)

AllPhases == <<"init", "deliberation", "voting", "synthesis", "complete">>

\* _node_synthesis has returned
SynthesisReturned == cpc \in {"tally", "done", "raised"}

\* C5: in a run in which no persona and no chairman call failed, once the
\* synthesis has returned the phase has taken exactly the values INIT,
\* DELIBERATION, VOTING, SYNTHESIS, COMPLETE, in that order, each once.
C5_PhaseSequence ==
    (SynthesisReturned /\ failed = <<>>) => phase_hist = AllPhases

CountType(events, t) == Cardinality({i \in 1..Len(events) : events[i].type = t})

\* the first event of the voting phase has been yielded
VotingStarted ==
    \E i \in 1..Len(out) : out[i] = Status("Deliberations complete. Calling for votes...")

\* C6: each launched persona task publishes at most one completion event and at
\* most one error event, the completion event is the last event of the task and
\* every finished task has published it, failed or not; once a voting event has
\* been emitted, exactly N completion events were published, one per persona,
\* and all N have been received.
C6_DeliberationCompletions ==
    /\ \A p \in DOMAIN pub :
         /\ CountType(pub[p], "complete") <= 1
         /\ CountType(pub[p], "error") <= 1
         /\ CountType(pub[p], "complete") = 1 => pub[p][Len(pub[p])].type = "complete"
         /\ task[p] = "done" => CountType(pub[p], "complete") = 1
    /\ VotingStarted =>
         /\ DOMAIN pub = Personas
         /\ \A p \in Personas : task[p] = "done" /\ CountType(pub[p], "complete") = 1
         /\ finished = MaxPersonas
         /\ queue = <<>>
         /\ CountType(out, "error") <= MaxPersonas

\* voting has started after a deliberation in which a persona task failed with
\* an error event and still published its completion event last
C6_Witness ==
    /\ VotingStarted
    /\ \E p \in Personas :
         /\ CountType(pub[p], "error") = 1
         /\ pub[p][Len(pub[p])].type = "complete"

\* the token and error events of persona p in a sequence of events
FragmentsOf(events, p) ==
    SelectSeq(events, LAMBDA e : e.source = PersonaSource(p) /\ e.type \in {"token", "error"})

SomePersonaFailed == \E p \in Personas : p \in DOMAIN failed

\* C10: once voting has started every persona task has run to its end and every
\* fragment any persona published was emitted, whichever personas failed; and
\* after a persona fails the deliberation still ends and voting starts.
C10_FailureDoesNotStopSiblings ==
    /\ [](VotingStarted =>
            \A p \in Personas : task[p] = "done" /\ FragmentsOf(out, p) = FragmentsOf(pub[p], p))
    /\ (SomePersonaFailed ~> VotingStarted)

\* voting has started; a persona failed, and a fragment of another persona was
\* emitted after the failed persona's last fragment
C10_Witness ==
    /\ VotingStarted
    /\ \E p, q \in Personas : \E i, j \in 1..Len(out) :
         /\ p # q
         /\ p \in DOMAIN failed
         /\ q \notin DOMAIN failed
         /\ i < j
         /\ out[i].source = PersonaSource(p)
         /\ out[j].source = PersonaSource(q)
         /\ out[j].type = "token"

\* C11: once the deliberation is over, every persona whose backend call failed
\* has an event of type error with that persona as source in the output.
C11_FailureYieldsErrorEvent ==
    VotingStarted =>
      \A p \in Personas :
        p \in DOMAIN failed =>
          \E i \in 1..Len(out) : out[i].type = "error" /\ out[i].source = PersonaSource(p)

\* the generator has ended, by returning or by raising
RunEnded == cpc \in {"done", "raised"}

\* C12: when the chairman call has failed, the final event carries the fixed
\* degraded decree and the run does not raise.
C12_ChairmanFailureDegrades ==
    Chairman \in DOMAIN failed =>
      /\ \E i \in 1..Len(out) : out[i] = Event("final", ChairmanSource, DefaultDecree)
      /\ cpc # "raised"

\* C13: a run that has reached synthesis ends normally, and its last two events
\* are the final decree and one tally event whose counts are those of the N
\* recorded votes.
C13_TallyAfterFinal ==
    RunEnded =>
      /\ cpc = "done"
      /\ Len(out) >= 2
      /\ out[Len(out) - 1].type = "final"
      /\ out[Len(out)] = Event("tally", NoSource,
                               <<ToString(Count("yes")), ToString(Count("no")),
                                 ToString(Count("abstain"))>>)
      /\ Count("yes") + Count("no") + Count("abstain") = MaxPersonas

\* C19: once the run is cancelled or its consumer has stopped reading during
\* DELIBERATION, no persona task takes a further step and none puts a further
\* event on the queue.
C19_CancellationReachesTasks ==
    [][cpc = "closed" => UNCHANGED <<task, pub, queue>>]_vars

IsPrefix(a, b) == Len(a) <= Len(b) /\ SubSeq(b, 1, Len(a)) = a

\* the token contents of a sequence of events, concatenated in order
RECURSIVE TokenText(_)
TokenText(events) ==
    IF Len(events) = 0 THEN <<>>
    ELSE (IF Head(events).type = "token" THEN Head(events).content ELSE <<>>)
         \o TokenText(Tail(events))

\* the opinion stored for persona p, empty when none is stored
OpinionOf(p) == IF p \in DOMAIN opinions THEN opinions[p] ELSE <<>>

\* C28: every token or error event taken from the queue during DELIBERATION
\* is emitted next, a completion event is not emitted; the fragments of a
\* persona are emitted in the order it published them; and once the phase is
\* left the opinion of each persona is the concatenation, in publish order, of
\* the token contents it published.
C28_DrainKeepsOrder ==
    /\ [][ (cpc = "drain" /\ queue # <<>> /\ queue' = Tail(queue))
           => IF Head(queue).type = "complete"
              THEN out' = out
              ELSE out' = Append(out, Head(queue)) ]_vars
    /\ [](cpc \notin {None, "start", "init", "launch"} =>
            \A p \in Personas :
               IsPrefix(FragmentsOf(out, p), FragmentsOf(pub[p], p)))
    /\ [](VotingStarted =>
            \A p \in Personas : OpinionOf(p) = TokenText(pub[p]))

\* voting has started after a persona published two tokens and another
\* published one
C28_Witness ==
    /\ VotingStarted
    /\ \E p, q \in Personas :
          /\ p # q
          /\ CountType(pub[p], "token") >= 2
          /\ CountType(pub[q], "token") >= 1
          /\ OpinionOf(p) = TokenText(pub[p])

\* the task of persona p waits for its backend
Suspended(p) == task[p] \in {"awaiting", "streaming"}

\* C29: when every backend call ends, the consumer loop of DELIBERATION gets
\* all completion events and the phase is left; a persona task that has not
\* ended can always take its next step, so none waits on the queue to publish;
\* and while a persona is suspended the consumer can take the next event off
\* the queue.
C29_DeliberationEnds ==
    /\ (cpc = "drain") ~> (finished = MaxPersonas /\ VotingStarted)
    /\ [](cpc = "drain" => \A p \in Personas : task[p] # "done" => ENABLED TaskStep(p))
    /\ []((cpc = "drain" /\ queue # <<>> /\ \E p \in Personas : Suspended(p))
            => ENABLED CDrain)

\* a persona is suspended, having published nothing, while a fragment of
\* another persona has been emitted and more events wait on the queue
C29_Witness ==
    /\ cpc = "drain"
    /\ queue # <<>>
    /\ \E p, q \in Personas :
          /\ p # q
          /\ Suspended(p)
          /\ pub[p] = <<>>
          /\ FragmentsOf(out, q) # <<>>

\* the events of VOTING that belong to a persona: its vote tokens and its vote
VotingEvents ==
    SelectSeq(out, LAMBDA e : e.type = "vote" \/ e.source.kind = "vote")

\* C27: the vote events appear in persona-declaration order, one per persona,
\* and the vote tokens and the vote event of a persona all come before any
\* voting event of a later persona, the vote event being the persona's last.
C27_VotingSequential ==
    LET ve == VotingEvents
        vs == SelectSeq(ve, LAMBDA e : e.type = "vote")
    IN  /\ \A i \in 1..Len(vs) : vs[i].source.id = i
        /\ \A i, j \in 1..Len(ve) :
              i < j => /\ ve[i].source.id <= ve[j].source.id
                       /\ ve[i].type = "vote" => ve[i].source.id < ve[j].source.id

\* every persona has voted, and the last one streamed its vote text after the
\* vote of the one before it
C27_Witness ==
    LET ve == VotingEvents
    IN  /\ Len(ve) = MaxPersonas + 1
        /\ ve[Len(ve)].type = "vote"
        /\ ve[Len(ve) - 1] = Event("token", VoteSource(MaxPersonas), ve[Len(ve) - 1].content)
        /\ ve[Len(ve) - 2].type = "vote"

-----------------------------------------------------------------------------
(* Claims about ResearchGraph, under SpecResearch *)

\* the workflow has proceeded from Analyze to Synthesize
ProceededToSynthesize == rnode \in {"synthesize", "end"}

\* C8: when a research run proceeds to Synthesize, Analyze has been invoked at
\* most max_iterations times, whatever the analysis responses said about gaps.
C8_AnalyzeAtMostMaxIterations == ProceededToSynthesize => analyze_calls <= max_iterations

\* a research run has been started
RunStarted == rnode \notin {None, "idle"}

\* C16: in a research run in which Analyze has run, the iteration counter does
\* not exceed the run's iteration cap.
C16_IterationWithinCap ==
    (RunStarted /\ iteration_count > 0) => iteration_count <= max_iterations

\* C17: within a research run every step leaves the previous result list as a
\* prefix of the new one; a step of a node other than WebSearch leaves the list
\* unchanged, and so does a WebSearch whose search failed.
C17_ResultsAppendOnly ==
    [][RunStarted =>
         /\ IsPrefix(search_results, search_results')
         /\ rnode # "web_search" => search_results' = search_results
         /\ (rnode = "web_search" /\ last_update' = "Search error")
              => search_results' = search_results]_vars

\* in a second or later iteration a search failed and the results found before
\* are still there
C17_Witness ==
    /\ rnode = "analyze"
    /\ iteration_count >= 1
    /\ last_update = "Search error"
    /\ Len(search_results) >= 1

\* C21: the iteration cap of a research run lies in 1..5, whatever the caller
\* passed to research, research_stream, deep_research or /api/research.
C21_CapBetweenOneAndFive == RunStarted => max_iterations \in 1..5

\* C30: the query list GenerateQueries leaves is non-empty and has at most
\* queries_per_iteration entries; when the backend call failed or its answer
\* held no usable line, the list is the raw user query alone.
C30_QueriesNonEmptyBounded ==
    generation.done =>
        /\ Len(search_queries) \in 1..QUERIES_PER_ITERATION
        /\ (generation.failed \/ generation.usable = 0) => search_queries = <<UserQuery>>

\* the answer held more usable lines than queries are kept
C30_Witness ==
    /\ generation.done
    /\ generation.usable > QUERIES_PER_ITERATION
    /\ Len(search_queries) = QUERIES_PER_ITERATION

\* the text says that something failed
StatesFailure(report) ==
    \/ Contains(Lower(report), <<"f","a","i","l">>)
    \/ Contains(Lower(report), <<"e","r","r","o","r">>)

\* the run has ended and the call of the synthesis model did not succeed
SynthesisCallFailed == rnode = "end" /\ cloud_result \in {"failed", "raised"}

\* C31: when the call of the synthesis model fails, Synthesize still returns;
\* the final report is non-empty and states the failure, and research_stream
\* yields it as its report event.
C31_SynthesisFailureReported ==
    SynthesisCallFailed =>
        /\ final_report # <<>>
        /\ StatesFailure(final_report)
        /\ entry = "research_stream" =>
             stream_events[Len(stream_events)] = StreamEvent("report", "synthesize", final_report)

\* the step is Analyze and the call of the analysis model did not succeed
AnalysisCallFails == rnode = "analyze" /\ rnode' # "analyze" /\ cloud_result' \in {"failed", "raised"}

\* C32: when the call of the analysis model fails, Analyze clears gaps_found,
\* still increments the iteration counter, and the graph goes on to Synthesize.
C32_AnalysisFailureEndsIteration ==
    [][AnalysisCallFails =>
          /\ gaps_found' = FALSE
          /\ iteration_count' = iteration_count + 1
          /\ rnode' = "synthesize"]_vars

\* the order in which the graph runs the nodes of one iteration
CycleNodes == <<"generate_queries", "web_search", "analyze">>

\* the first n invocations follow the cycle
Cyclic(n) == \A i \in 1..n : node_trace[i] = CycleNodes[((i - 1) % 3) + 1]

\* positions of the report events in the stream
ReportPositions == {i \in 1..Len(stream_events) : stream_events[i].type = "report"}

\* C40: a research run invokes GenerateQueries, WebSearch and Analyze in that
\* cyclic order, each k >= 1 times, then Synthesize once, right after the last
\* Analyze, and then ends; research_stream yields at most one report event,
\* and after it no status event of another node.
C40_NodeOrder ==
    /\ rnode \in {"generate_queries", "web_search", "analyze", "synthesize"} =>
         /\ Cyclic(Len(node_trace))
         /\ rnode = "synthesize" <=> (Len(node_trace) > 0 /\ Len(node_trace) % 3 = 0
                                       /\ ~gaps_found)
    /\ rnode = "end" =>
         /\ \E k \in 1..Len(node_trace) :
              /\ Len(node_trace) = 3 * k + 1
              /\ Cyclic(3 * k)
              /\ node_trace[3 * k + 1] = "synthesize"
         /\ ~ENABLED (GenerateQueries \/ WebSearch \/ Analyze \/ Synthesize)
    /\ Cardinality(ReportPositions) <= 1
    /\ \A i \in ReportPositions : \A j \in (i + 1)..Len(stream_events) :
         ~(stream_events[j].type = "status" /\ stream_events[j].node # stream_events[i].node)

\* a streamed run of two iterations has ended with a report
C40_Witness ==
    /\ rnode = "end"
    /\ entry = "research_stream"
    /\ Len(node_trace) = 7
    /\ ReportPositions # {}

-----------------------------------------------------------------------------
(* Claims about FallbackRouter, under SpecRouter *)

\* the router can construct (or holds) the client of the provider the mapping
\* assigns to the requested name
Constructible ==
    \/ /\ FallbackFor(model_name).provider = "openrouter"
       /\ (openrouter_client \/ "openrouter" \in api_keys)
    \/ /\ FallbackFor(model_name).provider = "groq"
       /\ (groq_client \/ "groq" \in api_keys)

\* the keyword of entry i of the table is a substring of the requested name,
\* lower-cased and with hyphens for spaces
KeywordIn(i, name) ==
    Contains([k \in 1..Len(name) |-> IF LowerChar(name[k]) = " " THEN "-" ELSE LowerChar(name[k])],
             DEFAULT_FALLBACKS[i].key)

\* _try_fallback has chosen the fallback of the call
FallbackChosen == fallback # NoFallback

\* C33: the fallback chosen for a requested name is the first entry of
\* DEFAULT_FALLBACKS, in table order, whose keyword is a substring of the
\* lower-cased name with spaces replaced by hyphens; a name that matches no
\* keyword gets (openrouter, deepseek-r1).
C33_FirstMatchWins ==
    FallbackChosen =>
      \/ \E i \in 1..Len(DEFAULT_FALLBACKS) :
            /\ KeywordIn(i, model_name)
            /\ \A j \in 1..(i - 1) : ~KeywordIn(j, model_name)
            /\ fallback = [provider |-> DEFAULT_FALLBACKS[i].provider,
                           model |-> DEFAULT_FALLBACKS[i].model]
      \/ /\ \A i \in 1..Len(DEFAULT_FALLBACKS) : ~KeywordIn(i, model_name)
         /\ fallback = [provider |-> "openrouter", model |-> "deepseek-r1"]

\* a name that holds the keywords of two entries was given the earlier one
C33_Witness ==
    /\ FallbackChosen
    /\ KeywordIn(9, model_name)
    /\ KeywordIn(10, model_name)
    /\ fallback = [provider |-> "groq", model |-> "llama-3.3-70b"]

\* the step is the handler of RateLimitError
RateLimitHandled == rpc = "primary" /\ primary_failure' = "rate_limit"

\* C34: on a RateLimitError, when the credential of the provider the mapping
\* assigns to the requested name is configured, the router has a client of
\* that provider, yields the fallback notice and goes on to relay the fallback
\* stream; it yields the rate-limited notice only when that credential is not
\* configured. This holds for openrouter, groq and google.
C34_FallbackWheneverConfigured ==
    [][RateLimitHandled =>
         LET provider == FallbackFor(model_name).provider IN
           /\ provider \in api_keys =>
                /\ rpc' = "fallback"
                /\ rout'[Len(rout')].kind = "notice"
           /\ rout'[Len(rout')].kind = "rate_limited" => provider \notin api_keys]_vars

\* C9: every fragment of a fallback stream in the output is preceded by a notice
\* naming the requested model name and that stream's model and provider; there
\* is never more than one notice; when the primary failed with a RateLimitError
\* and the fallback is constructible there is exactly one, naming the requested
\* name and the mapped fallback model and provider (for GPT-4o with an
\* OpenRouter key: GPT-4o, deepseek-r1, OpenRouter).
C9_NoticeBeforeFallback ==
    /\ \A j \in 1..Len(rout) :
         rout[j].kind = "fallback" =>
           \E i \in 1..(j - 1) : rout[i] = Notice(model_name, rout[j].model, rout[j].provider)
    /\ CountKind(rout, "notice") <= 1
    /\ (primary_failure = "rate_limit" /\ Constructible) =>
         /\ CountKind(rout, "notice") = 1
         /\ \E i \in 1..Len(rout) :
              rout[i] = Notice(model_name, FallbackFor(model_name).model,
                               ProviderName(FallbackFor(model_name).provider))
    /\ (primary_failure = "rate_limit" /\ model_name = GPT_4o /\ "openrouter" \in api_keys) =>
         \E i \in 1..Len(rout) : rout[i] = Notice(GPT_4o, "deepseek-r1", "OpenRouter")

\* GPT-4o was asked for, the primary streamed a chunk and was then rate-limited,
\* and a chunk of the fallback stream has been relayed after the notice
C9_Witness ==
    /\ model_name = GPT_4o
    /\ primary_failure = "rate_limit"
    /\ Len(rout) >= 3
    /\ rout[1].kind = "primary"
    /\ rout[2] = Notice(GPT_4o, "deepseek-r1", "OpenRouter")
    /\ rout[3].kind = "fallback"

\* C14: when the primary failed with a RateLimitError and no client of the
\* mapped provider is constructible, the router emits, right after what the
\* primary had streamed, the rate-limited notice naming the requested model,
\* then the configure-keys notice, and ends; it emits no fallback notice and no
\* fallback fragment.
C14_NoFallbackNotice ==
    (primary_failure = "rate_limit" /\ ~Constructible) =>
      /\ rpc \in {"no_fallback", "done"}
      /\ CountKind(rout, "notice") = 0
      /\ CountKind(rout, "fallback") = 0
      /\ Len(rout) > Len(primary_stream)
      /\ rout[Len(primary_stream) + 1] =
           Fragment("rate_limited", "RATE_LIMITED", model_name, "", "")
      /\ rpc = "done" =>
           /\ Len(rout) = Len(primary_stream) + 2
           /\ rout[Len(rout)].kind = "configure"

\* a call for a name mapped to google has ended with the two notices, the google
\* credential being the only one configured
C14_Witness ==
    /\ rpc = "done"
    /\ primary_failure = "rate_limit"
    /\ api_keys = {"google"}
    /\ FallbackFor(model_name).provider = "google"
    /\ Len(rout) = Len(primary_stream) + 2
    /\ rout[Len(rout) - 1].kind = "rate_limited"

\* the call has ended and the primary stream raised nothing
PrimarySucceeded == rpc = "done" /\ primary_failure = None

C38_OnlyOwnKeys ==
    rpc \in {"fallback", "fallback_ended"} => fallback.provider \in supplied

\* the primary raised a RateLimitError and _try_fallback returned a generator
FallbackTaken == primary_failure = "rate_limit" /\ ClientFor(fallback.provider)

-----------------------------------------------------------------------------
(* Claims about LMSYSAgent, under SpecAgent *)

\* C18: at any time at most one tab is open in the browser for a key, whatever
\* the interleaving of the get_model_tab calls.
C18_OneOpenSessionPerKey ==
    \A k \in AgentKeys : Cardinality(OpenFor(k)) <= 1

-----------------------------------------------------------------------------
(* Claims about GeminiCouncilMember, under SpecGemini *)

\* C20: all GeminiCouncilMember instances of the process draw on one and the
\* same RateLimitManager.
C20_SingleBucketPerProvider ==
    \A m, n \in 1..Len(gemini_members) :
        gemini_members[m].limiter = gemini_members[n].limiter

====
